---- MODULE Spec2Model ----
(***************************************************************************)
(* Verification model of regexgen: the pattern IR, the multi-criteria      *)
(* fitness scorer, the simulated-annealing driver and the validator.       *)
(*                                                                         *)
(* Python floats are IEEE-754 binary64.  The scorer's results are compared *)
(* against 0, 1 and 0.999, so the model carries floats exactly: a float is *)
(* a record [neg, m, e] denoting (-1)^neg * m * 2^e, with m a natural      *)
(* number of exactly 53 bits (or zero), and every operation rounds to      *)
(* nearest, ties to even, as the hardware does.  Mantissas do not fit the  *)
(* model checker's integers, so naturals are little-endian sequences of    *)
(* 15-bit limbs.                                                           *)
(***************************************************************************)
EXTENDS Integers, Sequences, FiniteSets, TLC

\* ------------------------------------------------------------------------
\* Arbitrary-precision naturals (little-endian limbs, no high zero limb).
\* ------------------------------------------------------------------------

LimbBits == 15

Limb == 2^LimbBits

MantBits == 53

Pow2(n) == 2^n

Max(a, b) == IF a >= b THEN a ELSE b

Min(a, b) == IF a <= b THEN a ELSE b

\* the largest member of a non-empty set of integers
MaxOf(S) == CHOOSE i \in S : \A j \in S : j <= i

\* without its high zero limbs
BTrim(a) ==
    LET nz == {i \in DOMAIN a : a[i] # 0}
    IN  IF a = <<>> \/ nz = {} THEN <<>> ELSE SubSeq(a, 1, MaxOf(nz))

\* a machine integer n >= 0 in limbs
BFromInt(n) == BTrim(<<n % Limb, (n \div Limb) % Limb, n \div (Limb * Limb)>>)

BLimb(a, i) == IF i >= 1 /\ i <= Len(a) THEN a[i] ELSE 0

\* a + b: limb i takes a carry when a lower limb overflows and every limb
\* between passes the carry on
BAdd(a, b) ==
    LET sum(i) == BLimb(a, i) + BLimb(b, i)
        carry(i) == IF \E j \in 1..(i - 1) :
                          /\ sum(j) >= Limb
                          /\ \A k \in (j + 1)..(i - 1) : sum(k) = Limb - 1
                    THEN 1 ELSE 0
    IN  IF a = <<>> THEN b
        ELSE IF b = <<>> THEN a
        ELSE BTrim([i \in 1..(Max(Len(a), Len(b)) + 1) |-> (sum(i) + carry(i)) % Limb])

\* a - b for a >= b, with the borrow found as the carry is
BSub(a, b) ==
    LET diff(i) == BLimb(a, i) - BLimb(b, i)
        borrow(i) == IF \E j \in 1..(i - 1) :
                           /\ diff(j) < 0
                           /\ \A k \in (j + 1)..(i - 1) : diff(k) = 0
                     THEN 1 ELSE 0
    IN  IF b = <<>> THEN a
        ELSE BTrim([i \in 1..Len(a) |-> (diff(i) - borrow(i) + Limb) % Limb])

\* -1, 0, 1 as a < b, a = b, a > b
BCmp(a, b) ==
    LET differ == {i \in DOMAIN a : a[i] # BLimb(b, i)}
    IN  IF Len(a) < Len(b) THEN -1
        ELSE IF Len(a) > Len(b) THEN 1
        ELSE IF differ = {} THEN 0
        ELSE IF a[MaxOf(differ)] < b[MaxOf(differ)] THEN -1
        ELSE 1

BShlLimbs(a, n) == IF a = <<>> THEN <<>> ELSE [i \in 1..n |-> 0] \o a

\* a * k for 0 <= k <= Limb: the low halves of the limb products plus the
\* high halves one limb up
BMulSmall(a, k) ==
    IF a = <<>> \/ k = 0 THEN <<>>
    ELSE BAdd(BTrim([i \in DOMAIN a |-> (a[i] * k) % Limb]),
              BShlLimbs(BTrim([i \in DOMAIN a |-> (a[i] * k) \div Limb]), 1))

RECURSIVE BMulAt(_, _, _)
BMulAt(a, b, i) ==
    IF i > Len(b) THEN <<>>
    ELSE BAdd(BShlLimbs(BMulSmall(a, b[i]), i - 1), BMulAt(a, b, i + 1))

BMul(a, b) == BMulAt(a, b, 1)

BShl(a, n) == BShlLimbs(BMulSmall(a, Pow2(n % LimbBits)), n \div LimbBits)

\* floor(a / 2^n)
BShr(a, n) ==
    LET k == n \div LimbBits
        j == n % LimbBits
    IN  IF a = <<>> THEN <<>> ELSE
        BTrim([i \in 1..Max(Len(a) - k, 0) |->
                  (BLimb(a, i + k) \div Pow2(j))
                  + (BLimb(a, i + k + 1) % Pow2(j)) * Pow2(LimbBits - j)])

\* the number of bits of a machine integer n >= 0
IntBitLen(n) == Cardinality({k \in 0..30 : Pow2(k) <= n})

BBitLen(a) == IF a = <<>> THEN 0 ELSE LimbBits * (Len(a) - 1) + IntBitLen(a[Len(a)])

BBit(a, i) == (BLimb(a, (i \div LimbBits) + 1) \div Pow2(i % LimbBits)) % 2

\* a mod 2^n # 0
BLowBits(a, n) ==
    \/ \E i \in 1..Min(n \div LimbBits, Len(a)) : a[i] # 0
    \/ BLimb(a, (n \div LimbBits) + 1) % Pow2(n % LimbBits) # 0

BIsOdd(a) == a # <<>> /\ a[1] % 2 = 1

BOne == <<1>>

\* The quotient digit of r by b, tried from d down, p = b * d: the largest
\* d with b * d <= r, and what is left of r.
RECURSIVE BDivTry(_, _, _, _)
BDivTry(r, b, d, p) ==
    IF BCmp(p, r) <= 0 THEN <<d, BSub(r, p)>> ELSE BDivTry(r, b, d - 1, BSub(p, b))

\* One step of the long division by b, whose high limb has its high bit
\* set: <<floor(r / b), r mod b>> for r < b * Limb.  The quotient digit is
\* estimated from the two high limbs of r and is at most two too large.
BDivFrom(r, b, qhat) == BDivTry(r, b, qhat, BMulSmall(b, qhat))

BDivStep(r, b) ==
    IF r = <<>> THEN <<0, <<>>>>
    ELSE BDivFrom(r, b, Min((BLimb(r, Len(b) + 1) * Limb + BLimb(r, Len(b))) \div b[Len(b)],
                            Limb - 1))

\* Long division, one limb of a at a time from limb i down, r the remainder
\* and q the quotient so far: <<quotient, remainder>>.
RECURSIVE BDivModAt(_, _, _, _, _)
BDivModThen(a, b, i, q, step) == BDivModAt(a, b, i - 1, step[2], <<step[1]>> \o q)

BDivModAt(a, b, i, r, q) ==
    IF i = 0 THEN <<q, r>> ELSE BDivModThen(a, b, i, q, BDivStep(BTrim(<<a[i]>> \o r), b))

\* <<floor(a / b), a mod b>> for b # 0
\* the quotient and the remainder of the normalized division, the
\* remainder shifted back by the sh bits of the normalization
BDivResult(qr, sh) == <<BTrim(qr[1]), BShr(qr[2], sh)>>

\* an / bn from limb i0 of an down, for the a and the shift they came from
BDivide(a, an, bn, i0, sh) ==
    IF i0 < 1 THEN <<(<<>>), a>>
    ELSE BDivResult(BDivModAt(an, bn, i0, SubSeq(an, i0 + 1, Len(an)), <<>>), sh)

BDivNormalized(a, an, bn, sh) == BDivide(a, an, bn, Len(an) - Len(bn) + 1, sh)

BDivShifted(a, b, sh) == BDivNormalized(a, BShl(a, sh), BShl(b, sh), sh)

BDivMod(a, b) == BDivShifted(a, b, LimbBits - IntBitLen(b[Len(b)]))

\* ------------------------------------------------------------------------
\* binary64 arithmetic, round to nearest, ties to even.
\* ------------------------------------------------------------------------

\* the positive float m * 2^e, m a mantissa of 53 bits
Flt(m, e) == [neg |-> FALSE, m |-> m, e |-> e]

FZero == [neg |-> FALSE, m |-> <<>>, e |-> 0]

F0 == FZero

F1 == Flt(<<0, 0, 0, 128>>, -52)

\* The float nearest to mag * 2^e; sticky says that the exact value lies
\* strictly above mag * 2^e (and below (mag + 1) * 2^e).
\* the rounded mantissa q2 of a magnitude that had d bits too many: the
\* rounding can carry into one bit more
FRoundNorm(neg, q2, e, d) ==
    IF BBitLen(q2) > MantBits
    THEN [neg |-> neg, m |-> BShr(q2, 1), e |-> e + d + 1]
    ELSE [neg |-> neg, m |-> q2, e |-> e + d]

\* the mantissa q = floor(mag / 2^d), rounded up when the d bits dropped
\* are more than half, or half and q is odd
FRoundUp(mag, d, sticky, q) ==
    IF /\ BBit(mag, d - 1) = 1
       /\ (BLowBits(mag, d - 1) \/ sticky \/ BIsOdd(q))
    THEN BAdd(q, BOne) ELSE q

\* FRound for a magnitude of len bits
FRoundLen(neg, mag, e, sticky, len) ==
    IF len = 0 THEN FZero
    ELSE IF len <= MantBits
    THEN [neg |-> neg, m |-> BShl(mag, MantBits - len), e |-> e - (MantBits - len)]
    ELSE FRoundNorm(neg, FRoundUp(mag, len - MantBits, sticky, BShr(mag, len - MantBits)),
                    e, len - MantBits)

FRound(neg, mag, e, sticky) == FRoundLen(neg, mag, e, sticky, BBitLen(mag))

\* float(n) for an integer n
FInt(n) == FRound(n < 0, BFromInt(IF n < 0 THEN -n ELSE n), 0, FALSE)

FIsZero(x) == x.m = <<>>

\* -1, 0, 1 as |x| < |y|, |x| = |y|, |x| > |y|
FCmpMag(x, y) ==
    IF FIsZero(x) THEN (IF FIsZero(y) THEN 0 ELSE -1)
    ELSE IF FIsZero(y) THEN 1
    ELSE IF x.e < y.e THEN -1
    ELSE IF x.e > y.e THEN 1
    ELSE BCmp(x.m, y.m)

FCmp(x, y) ==
    IF FIsZero(x) /\ FIsZero(y) THEN 0
    ELSE IF x.neg /\ ~y.neg THEN -1
    ELSE IF ~x.neg /\ y.neg THEN 1
    ELSE (IF x.neg THEN -1 ELSE 1) * FCmpMag(x, y)

FLt(x, y) == FCmp(x, y) < 0

FLe(x, y) == FCmp(x, y) <= 0

FGt(x, y) == FCmp(x, y) > 0

FGe(x, y) == FCmp(x, y) >= 0

FEq(x, y) == FCmp(x, y) = 0

FNeg(x) == IF FIsZero(x) THEN x ELSE [x EXCEPT !.neg = ~x.neg]

FMul(x, y) ==
    IF FIsZero(x) \/ FIsZero(y) THEN FZero
    ELSE FRound(x.neg # y.neg, BMul(x.m, y.m), x.e + y.e, FALSE)

\* x + y from the mantissas xm and ym brought to the exponent lo; ge says
\* that xm >= ym
FAddSum(x, y, lo, xm, ym, ge) ==
    FRound(IF ge THEN x.neg ELSE y.neg,
           IF x.neg = y.neg THEN BAdd(xm, ym)
           ELSE IF ge THEN BSub(xm, ym) ELSE BSub(ym, xm),
           lo, FALSE)

FAddAligned(x, y, lo, xm, ym) == FAddSum(x, y, lo, xm, ym, BCmp(xm, ym) >= 0)

FAddAt(x, y, lo) == FAddAligned(x, y, lo, BShl(x.m, x.e - lo), BShl(y.m, y.e - lo))

FAdd(x, y) ==
    IF FIsZero(x) THEN y
    ELSE IF FIsZero(y) THEN x
    ELSE FAddAt(x, y, Min(x.e, y.e))

FSub(x, y) == FAdd(x, FNeg(y))

\* x / y for y # 0 (the callers test for zero first): the quotient carries
\* two bits more than a mantissa, and a non-zero remainder is the sticky bit.
FDivQuotient(x, y, qr) ==
    FRound(x.neg # y.neg, qr[1], x.e - y.e - (MantBits + 2), qr[2] # <<>>)

FDiv(x, y) ==
    IF FIsZero(y) \/ FIsZero(x) THEN FZero
    ELSE FDivQuotient(x, y, BDivMod(BShl(x.m, MantBits + 2), y.m))

\* x ** n for an integer n >= 0: the exact power, rounded once.
RECURSIVE BPow(_, _)
BPow(a, n) == IF n = 0 THEN BOne ELSE BMul(a, BPow(a, n - 1))

FPowInt(x, n) ==
    IF n = 0 THEN F1
    ELSE IF FIsZero(x) THEN FZero
    ELSE FRound(x.neg /\ n % 2 = 1, BPow(x.m, n), x.e * n, FALSE)

FMax(x, y) == IF FGt(y, x) THEN y ELSE x

FMin(x, y) == IF FLt(y, x) THEN y ELSE x

\* ------------------------------------------------------------------------
\* Characters and strings.  A string is a sequence of one-character strings.
\* ------------------------------------------------------------------------

\* The printable ASCII characters in code point order, from 32 (space);
\* code point 96 is spelled "grave".
AsciiChars ==
    << " ", "!", "\"", "#", "$", "%", "&", "'", "(", ")", "*", "+",
       ",", "-", ".", "/", "0", "1", "2", "3", "4", "5", "6", "7",
       "8", "9", ":", ";", "<", "=", ">", "?", "@", "A", "B", "C",
       "D", "E", "F", "G", "H", "I", "J", "K", "L", "M", "N", "O",
       "P", "Q", "R", "S", "T", "U", "V", "W", "X", "Y", "Z", "[",
       "\\", "]", "^", "_", "grave", "a", "b", "c", "d", "e", "f", "g",
       "h", "i", "j", "k", "l", "m", "n", "o", "p", "q", "r", "s",
       "t", "u", "v", "w", "x", "y", "z", "{", "|", "}", "~" >>

ord(c) == 31 + (CHOOSE i \in DOMAIN AsciiChars : AsciiChars[i] = c)

\* None, where the code lets an int be None (QuantifierNode.max_count): a
\* value that is no natural number in limbs.
None == <<-1>>

IsNone(v) == v = None

RECURSIVE SeqRange(_, _, _)
SeqRange(str, i, j) == IF i > j THEN <<>> ELSE <<str[i]>> \o SeqRange(str, i + 1, j)

\* sorted(chars): the characters of a set in code point order
sorted(chars) == SelectSeq(AsciiChars, LAMBDA c : c \in chars)

\* A Python int that may exceed the machine word (a repeat count) is a
\* natural number in limbs, as the mantissas are.
PyInt(n) == BFromInt(n)

\* str(n) for such an int
RECURSIVE IntToStr(_)
IntToStr(n) ==
    LET Digits(qr) ==
            (IF qr[1] = <<>> THEN <<>> ELSE IntToStr(qr[1]))
            \o <<AsciiChars[17 + BLimb(qr[2], 1)]>>
    IN  Digits(BDivMod(n, <<10>>))

\* str.count(c)
count(str, c) == Cardinality({i \in DOMAIN str : str[i] = c})

\* the parts from the i-th to the j-th, joined; halving keeps the evaluation
\* of a long join shallow
RECURSIVE JoinRange(_, _, _)
JoinRange(parts, i, j) ==
    IF i > j THEN <<>>
    ELSE IF i = j THEN parts[i]
    ELSE JoinRange(parts, i, (i + j) \div 2) \o JoinRange(parts, (i + j) \div 2 + 1, j)

\* ''.join(parts), and the concatenation of lists
Joined(parts) == JoinRange(parts, 1, Len(parts))

LowerChars == {AsciiChars[i] : i \in 66..91}

UpperChars == {AsciiChars[i] : i \in 34..59}

DigitChars == {AsciiChars[i] : i \in 17..26}

isalpha1(c) == c \in LowerChars \cup UpperChars

\* str.isalpha(), str.isdigit(): every character is one, and there is one
isalpha(str) == str # <<>> /\ \A i \in DOMAIN str : isalpha1(str[i])

isdigit(str) == str # <<>> /\ \A i \in DOMAIN str : str[i] \in DigitChars

\* re.escape: the characters it puts a backslash before
ReSpecialChars ==
    {"(", ")", "[", "]", "{", "}", "?", "*", "+", "-", "|", "^", "$", "\\",
     ".", "&", "~", "#", " "}

re_escape(str) ==
    Joined([i \in DOMAIN str |->
               IF str[i] \in ReSpecialChars THEN <<"\\", str[i]>> ELSE <<str[i]>>])

\* ------------------------------------------------------------------------
\* Pattern IR (patterns/ast.py).  A node is a record tagged by "type".
\* ------------------------------------------------------------------------

LiteralNode(value) == [type |-> "literal", value |-> value]

CharacterClassNode(characters, negated, ranges) ==
    [type |-> "character_class", characters |-> characters,
     negated |-> negated, ranges |-> ranges]

QuantifierNode(child, min_count, max_count, lazy) ==
    [type |-> "quantifier", child |-> child, min_count |-> min_count,
     max_count |-> max_count, lazy |-> lazy]

\* name is a string; None and "" are both falsy and both <<>> here
GroupNode(child, capturing, name) ==
    [type |-> "group", child |-> child, capturing |-> capturing, name |-> name]

AlternationNode(alternatives) == [type |-> "alternation", alternatives |-> alternatives]

AnchorNode(anchor_type) == [type |-> "anchor", anchor_type |-> anchor_type]

WildcardNode == [type |-> "wildcard"]

EscapeClassChars(chars) ==
    Joined([i \in DOMAIN chars |->
               IF chars[i] \in {"\\", "^", "-", "]"}
               THEN <<"\\", chars[i]>> ELSE <<chars[i]>>])

RECURSIVE RangesToRegex(_)
RangesToRegex(ranges) ==
    IF ranges = <<>> THEN <<>>
    ELSE <<Head(ranges)[1], "-", Head(ranges)[2]>> \o RangesToRegex(Tail(ranges))

\* QuantifierNode.to_regex's suffix, before the lazy modifier
QuantifierSuffix(min_count, max_count) ==
    LET Braces(lo) ==
            IF min_count = max_count THEN <<"{">> \o lo \o <<"}">>
            ELSE IF IsNone(max_count) THEN <<"{">> \o lo \o <<",", "}">>
            ELSE <<"{">> \o lo \o <<",">> \o IntToStr(max_count) \o <<"}">>
    IN  IF min_count = PyInt(0) /\ max_count = PyInt(1) THEN <<"?">>
        ELSE IF min_count = PyInt(0) /\ IsNone(max_count) THEN <<"*">>
        ELSE IF min_count = PyInt(1) /\ IsNone(max_count) THEN <<"+">>
        ELSE Braces(IntToStr(min_count))

\* the suffix with the lazy modifier, added to ?, * and + only
FullSuffix(node) ==
    LET Lazy(suffix) ==
            IF node.lazy /\ suffix \in {<<"?">>, <<"*">>, <<"+">>}
            THEN suffix \o <<"?">> ELSE suffix
    IN  Lazy(QuantifierSuffix(node.min_count, node.max_count))

RECURSIVE to_regex(_)
RECURSIVE JoinAlternatives(_)
JoinAlternatives(alts) ==
    IF Len(alts) = 1 THEN to_regex(alts[1])
    ELSE to_regex(Head(alts)) \o <<"|">> \o JoinAlternatives(Tail(alts))

to_regex(node) ==
    CASE node.type = "literal" -> re_escape(node.value)
      [] node.type = "character_class" ->
            IF node.characters = {} /\ node.ranges = <<>> THEN <<>>
            ELSE <<"[">> \o (IF node.negated THEN <<"^">> ELSE <<>>)
                 \o EscapeClassChars(sorted(node.characters))
                 \o RangesToRegex(node.ranges) \o <<"]">>
      [] node.type = "quantifier" ->
            (IF node.child.type \in {"alternation", "group"}
             THEN <<"(", "?", ":">> \o to_regex(node.child) \o <<")">>
             ELSE to_regex(node.child))
            \o FullSuffix(node)
      [] node.type = "group" ->
            IF ~node.capturing THEN <<"(", "?", ":">> \o to_regex(node.child) \o <<")">>
            ELSE IF node.name # <<>>
            THEN <<"(", "?", "P", "<">> \o node.name \o <<">">> \o to_regex(node.child) \o <<")">>
            ELSE <<"(">> \o to_regex(node.child) \o <<")">>
      [] node.type = "alternation" ->
            IF node.alternatives = <<>> THEN <<>> ELSE JoinAlternatives(node.alternatives)
      [] node.type = "anchor" -> node.anchor_type
      [] node.type = "wildcard" -> <<".">>

RECURSIVE complexity(_)
RECURSIVE SumComplexity(_)
SumComplexity(alts) ==
    IF alts = <<>> THEN 0 ELSE complexity(Head(alts)) + SumComplexity(Tail(alts))

complexity(node) ==
    CASE node.type = "literal" -> Len(node.value)
      [] node.type = "character_class" ->
            2 + Cardinality(node.characters) + Len(node.ranges)
      [] node.type = "quantifier" ->
            complexity(node.child) + 2 + (IF IsNone(node.max_count) THEN 2 ELSE 0)
      [] node.type = "group" -> complexity(node.child) + 2
      [] node.type = "alternation" ->
            IF node.alternatives = <<>> THEN 0
            ELSE SumComplexity(node.alternatives) + (Len(node.alternatives) - 1)
      [] node.type = "anchor" -> 1
      [] node.type = "wildcard" -> 1

\* clone: a deep copy, field by field.  Nodes are values here, so the copy
\* is equal to the node; what sharing would do is a matter of the heap.
RECURSIVE clone(_)
RECURSIVE CloneAll(_)
CloneAll(alts) ==
    IF alts = <<>> THEN <<>> ELSE <<clone(Head(alts))>> \o CloneAll(Tail(alts))

clone(node) ==
    CASE node.type = "literal" -> LiteralNode(node.value)
      [] node.type = "character_class" ->
            CharacterClassNode(node.characters, node.negated, node.ranges)
      [] node.type = "quantifier" ->
            QuantifierNode(clone(node.child), node.min_count, node.max_count, node.lazy)
      [] node.type = "group" -> GroupNode(clone(node.child), node.capturing, node.name)
      [] node.type = "alternation" -> AlternationNode(CloneAll(node.alternatives))
      [] node.type = "anchor" -> AnchorNode(node.anchor_type)
      [] node.type = "wildcard" -> WildcardNode

\* ---- nodes as objects: the heap --------------------------------------------
\* A node of the source is an object, and its character set, its ranges list
\* and its alternatives list are objects of their own that it refers to.  The
\* heap is the sequence of the objects made so far, an object's place in it
\* is its address; a node on the heap holds addresses where the record of
\* above holds the child, the set or the list itself.

\* a new object on the heap
Put(heap, object) == [heap |-> Append(heap, object), at |-> Len(heap) + 1]

\* the objects of a tree, built bottom-up as its constructors are called
RECURSIVE Alloc(_, _)
RECURSIVE AllocAll(_, _, _)
AllocAll(heap, nodes, ats) ==
    IF nodes = <<>> THEN [heap |-> heap, ats |-> ats]
    ELSE LET made == Alloc(heap, Head(nodes))
         IN  AllocAll(made.heap, Tail(nodes), Append(ats, made.at))

Alloc(heap, node) ==
    CASE node.type = "character_class" ->
            Put(heap \o << [type |-> "characters", items |-> node.characters],
                           [type |-> "ranges", items |-> node.ranges] >>,
                [node EXCEPT !.characters = Len(heap) + 1, !.ranges = Len(heap) + 2])
      [] node.type \in {"quantifier", "group"} ->
            LET made == Alloc(heap, node.child)
            IN  Put(made.heap, [node EXCEPT !.child = made.at])
      [] node.type = "alternation" ->
            LET made == AllocAll(heap, node.alternatives, <<>>)
            IN  Put(Append(made.heap, [type |-> "alternatives", items |-> made.ats]),
                    [node EXCEPT !.alternatives = Len(made.heap) + 1])
      [] OTHER -> Put(heap, node)

\* the tree that the node at an address is, read through the heap
RECURSIVE Load(_, _)
RECURSIVE LoadAll(_, _)
LoadAll(heap, ats) ==
    IF ats = <<>> THEN <<>> ELSE <<Load(heap, Head(ats))>> \o LoadAll(heap, Tail(ats))

Load(heap, at) ==
    CASE heap[at].type = "character_class" ->
            CharacterClassNode(heap[heap[at].characters].items, heap[at].negated,
                               heap[heap[at].ranges].items)
      [] heap[at].type \in {"quantifier", "group"} ->
            [heap[at] EXCEPT !.child = Load(heap, heap[at].child)]
      [] heap[at].type = "alternation" ->
            AlternationNode(LoadAll(heap, heap[heap[at].alternatives].items))
      [] OTHER -> heap[at]

\* copy.copy of a node: a new object with the same fields
CopyAt(heap, at) == Put(heap, heap[at])

\* node.clone() for the node at an address: the new objects and the address
\* of the clone
RECURSIVE CloneAt(_, _)
RECURSIVE CloneAllAt(_, _, _)
CloneAllAt(heap, ats, clones) ==
    IF ats = <<>> THEN [heap |-> heap, ats |-> clones]
    ELSE LET made == CloneAt(heap, Head(ats))
         IN  CloneAllAt(made.heap, Tail(ats), Append(clones, made.at))

CloneAt(heap, at) ==
    CASE heap[at].type = "literal" -> Put(heap, LiteralNode(heap[at].value))
      [] heap[at].type = "character_class" ->
            \* self.characters.copy(), self.ranges.copy()
            Put(heap \o << heap[heap[at].characters], heap[heap[at].ranges] >>,
                [heap[at] EXCEPT !.characters = Len(heap) + 1, !.ranges = Len(heap) + 2])
      [] heap[at].type \in {"quantifier", "group"} ->
            LET made == CloneAt(heap, heap[at].child)
            IN  Put(made.heap, [heap[at] EXCEPT !.child = made.at])
      [] heap[at].type = "alternation" ->
            LET made == CloneAllAt(heap, heap[heap[at].alternatives].items, <<>>)
            IN  Put(Append(made.heap, [type |-> "alternatives", items |-> made.ats]),
                    [heap[at] EXCEPT !.alternatives = Len(made.heap) + 1])
      [] heap[at].type = "anchor" -> Put(heap, AnchorNode(heap[at].anchor_type))
      [] heap[at].type = "wildcard" -> Put(heap, WildcardNode)

\* the addresses of the sets and lists that the node at an address reaches
RECURSIVE Containers(_, _)
Containers(heap, at) ==
    CASE heap[at].type = "character_class" -> {heap[at].characters, heap[at].ranges}
      [] heap[at].type \in {"quantifier", "group"} -> Containers(heap, heap[at].child)
      [] heap[at].type = "alternation" ->
            {heap[at].alternatives}
            \cup UNION {Containers(heap, heap[heap[at].alternatives].items[i]) :
                            i \in DOMAIN heap[heap[at].alternatives].items}
      [] OTHER -> {}

\* a change of a set or list in place: characters.add("z"),
\* ranges.append(("x", "z")), alternatives.pop()
Changed(container) ==
    CASE container.type = "characters" -> [container EXCEPT !.items = @ \cup {"z"}]
      [] container.type = "ranges" -> [container EXCEPT !.items = Append(@, <<"x", "z">>)]
      [] container.type = "alternatives" ->
            [container EXCEPT !.items = SubSeq(@, 1, Len(@) - 1)]

\* MultiCriteriaScorer._calculate_nesting_depth
RECURSIVE _depth(_, _)
RECURSIVE MaxDepth(_, _)
MaxDepth(alts, current_depth) ==
    IF Len(alts) <= 1 THEN _depth(alts[1], current_depth)
    ELSE LET a == _depth(Head(alts), current_depth)
             b == MaxDepth(Tail(alts), current_depth)
         IN  IF a >= b THEN a ELSE b

_depth(node, current_depth) ==
    IF node.type \in {"group", "quantifier"} THEN _depth(node.child, current_depth + 1)
    ELSE IF node.type = "alternation" THEN MaxDepth(node.alternatives, current_depth)
    ELSE current_depth

_calculate_nesting_depth(root) == _depth(root, 0)

\* max() of no alternatives raises ValueError; _depth visits every node
RECURSIVE DepthRaises(_)
DepthRaises(node) ==
    IF node.type \in {"group", "quantifier"} THEN DepthRaises(node.child)
    ELSE IF node.type = "alternation"
    THEN \/ node.alternatives = <<>>
         \/ \E i \in DOMAIN node.alternatives : DepthRaises(node.alternatives[i])
    ELSE FALSE

\* ------------------------------------------------------------------------
\* The regular expression engine behind re.compile and fullmatch, for the
\* dialect to_regex writes: literals, escapes of non-alphanumerics, \b and
\* \B, ".", "^", "$", sets with ranges and negation, groups, alternation and
\* the repeats ? * + {m} {m,} {m,n} with a lazy "?" or possessive "+" after.
\* A compiled pattern is a tree; an error is a message.
\* ------------------------------------------------------------------------

ReOK(node, pos) == [err |-> "", node |-> node, pos |-> pos]

ReFail(msg) == [err |-> msg, node |-> <<>>, pos |-> 0]

\* the character at i, "" past the end of the source
At(s, i) == IF i >= 1 /\ i <= Len(s) THEN s[i] ELSE ""

isalnum1(c) == c \in LowerChars \cup UpperChars \cup DigitChars

RECURSIVE DigitsEnd(_, _)
DigitsEnd(s, i) == IF At(s, i) \in DigitChars THEN DigitsEnd(s, i + 1) ELSE i

\* int(s[i..j-1])
RECURSIVE StrToInt(_, _, _)
StrToInt(s, i, j) ==
    IF j <= i THEN PyInt(0)
    ELSE BAdd(BMulSmall(StrToInt(s, i, j - 1), 10), PyInt(ord(s[j - 1]) - 48))

\* sre_constants.MAXREPEAT, 2^32 - 1
MAXREPEAT == <<32767, 32767, 3>>

CharRange(lo, hi) == {AsciiChars[k] : k \in (ord(lo) - 31)..(ord(hi) - 31)}

\* the message of the OverflowError; every other message is a re.error's
TooLarge == "the repetition number is too large"

\* a repeat operator at s[i]; lit says that a "{" is an ordinary character
ParseRepeat(s, i) ==
    LET rep(mn, mx, pos) == [lit |-> FALSE, err |-> "", min |-> mn, max |-> mx, pos |-> pos]
        fail(msg) == [lit |-> FALSE, err |-> msg, min |-> PyInt(0), max |-> None, pos |-> 0]
        literal == [lit |-> TRUE, err |-> "", min |-> PyInt(0), max |-> None, pos |-> i + 1]
        Check(mn, mx, hi_end) ==
            IF At(s, hi_end) # "}" THEN literal
            ELSE IF BCmp(mn, MAXREPEAT) >= 0 THEN fail(TooLarge)
            ELSE IF IsNone(mx) THEN rep(mn, mx, hi_end + 1)
            ELSE IF BCmp(mx, MAXREPEAT) >= 0 THEN fail(TooLarge)
            ELSE IF BCmp(mx, mn) < 0 THEN fail("min repeat greater than max repeat")
            ELSE rep(mn, mx, hi_end + 1)
        Bounds(lo_end, hi_start, hi_end) ==
            Check(IF lo_end > i + 1 THEN StrToInt(s, i + 1, lo_end) ELSE PyInt(0),
                  IF hi_end > hi_start THEN StrToInt(s, hi_start, hi_end) ELSE None,
                  hi_end)
        Upper(lo_end, comma) ==
            Bounds(lo_end, IF comma THEN lo_end + 1 ELSE i + 1,
                   IF comma THEN DigitsEnd(s, lo_end + 1) ELSE lo_end)
        Lower(lo_end) == Upper(lo_end, At(s, lo_end) = ",")
    IN  IF s[i] = "?" THEN rep(PyInt(0), PyInt(1), i + 1)
        ELSE IF s[i] = "*" THEN rep(PyInt(0), None, i + 1)
        ELSE IF s[i] = "+" THEN rep(PyInt(1), None, i + 1)
        ELSE IF At(s, i + 1) = "}" THEN literal
        ELSE Lower(DigitsEnd(s, i + 1))

\* the characters of a category escape: \d the decimal digits, \s the
\* whitespace (of the printable ASCII characters, the space)
CategoryEscapes == {"d", "s"}

CategoryChars(c) == IF c = "d" THEN DigitChars ELSE {" "}

\* the members of a set, from the position after "[" or "[^"
RECURSIVE ParseSetItems(_, _, _, _)
ParseSetItems(s, i, start, items) ==
    LET this == At(s, i)
        esc1 == this = "\\"
        c1 == IF esc1 THEN At(s, i + 1) ELSE this
        next == IF esc1 THEN i + 2 ELSE i + 1
        that == At(s, next + 1)
        esc2 == that = "\\"
        c2 == IF esc2 THEN At(s, next + 2) ELSE that
        nn == IF esc2 THEN next + 3 ELSE next + 2
    IN  IF this = "" THEN ReFail("unterminated character set")
        ELSE IF this = "]" /\ i # start THEN ReOK(items, i + 1)
        ELSE IF c1 = "" THEN ReFail("bad escape (end of pattern)")
        ELSE IF esc1 /\ c1 \in CategoryEscapes /\ At(s, next) # "-"
        THEN ParseSetItems(s, next, start, items \cup CategoryChars(c1))
        ELSE IF esc1 /\ isalnum1(c1) THEN ReFail("escape outside the dialect")
        ELSE IF At(s, next) = "-"
        THEN IF that = "" THEN ReFail("unterminated character set")
             ELSE IF that = "]" THEN ReOK(items \cup {c1, "-"}, next + 2)
             ELSE IF c2 = "" THEN ReFail("bad escape (end of pattern)")
             ELSE IF esc2 /\ isalnum1(c2) THEN ReFail("escape outside the dialect")
             ELSE IF ord(c2) < ord(c1) THEN ReFail("bad character range")
             ELSE ParseSetItems(s, nn, start, items \cup CharRange(c1, c2))
        ELSE ParseSetItems(s, next, start, items \cup {c1})

ParseSet(s, i) ==
    LET neg == At(s, i + 1) = "^"
        Set(r) == IF r.err # "" THEN r
                  ELSE ReOK([k |-> "set", neg |-> neg, items |-> r.node], r.pos)
        From(start) == Set(ParseSetItems(s, start, start, {}))
    IN  From(IF neg THEN i + 2 ELSE i + 1)

\* str.isidentifier() for an ASCII name
isidentifier(name) ==
    /\ name # <<>>
    /\ \A i \in DOMAIN name : isalnum1(name[i]) \/ name[i] = "_"
    /\ name[1] \notin DigitChars

RECURSIVE FindChar(_, _, _)
FindChar(s, i, c) ==
    IF i > Len(s) THEN 0 ELSE IF s[i] = c THEN i ELSE FindChar(s, i + 1, c)

\* what follows "(": where the body starts, and whether the group captures
GroupOpen(s, i) ==
    LET close == FindChar(s, i + 4, ">")
        name == SeqRange(s, i + 4, close - 1)
        open(cap, nm, pos) == [err |-> "", cap |-> cap, name |-> nm, pos |-> pos]
        fail(msg) == [err |-> msg, cap |-> FALSE, name |-> <<>>, pos |-> 0]
    IN  IF At(s, i + 1) # "?" THEN open(TRUE, <<>>, i + 1)
        ELSE IF At(s, i + 2) = "" THEN fail("unexpected end of pattern")
        ELSE IF At(s, i + 2) = ":" THEN open(FALSE, <<>>, i + 3)
        ELSE IF At(s, i + 2) = "P" /\ At(s, i + 3) = "<"
        THEN IF close = 0 THEN fail("missing >, unterminated name")
             ELSE IF close = i + 4 THEN fail("missing group name")
             ELSE IF ~isidentifier(name) THEN fail("bad character in group name")
             ELSE open(TRUE, name, close + 1)
        ELSE fail("extension outside the dialect")

RepeatCodes == {"max_repeat", "min_repeat", "possessive_repeat"}

\* the characters that are no literal where an item starts
ItemSpecials == {"\\", "[", "(", ")", ".", "^", "$", "|", "*", "+", "?", "{"}

\* p stands after an even number of backslashes, counted from i where an
\* item starts: the character at p is not escaped
Unescaped(s, i, p) ==
    LET others == {r \in i..(p - 1) : s[r] # "\\"}
    IN  (p - 1 - (IF others = {} THEN i - 1 ELSE MaxOf(others))) % 2 = 0

\* the item at p is one literal character, plain or escaped, and no repeat
\* follows it
PlainItem(s, p) ==
    /\ p <= Len(s)
    /\ IF s[p] = "\\" THEN At(s, p + 1) # "" /\ ~isalnum1(At(s, p + 1))
       ELSE s[p] \notin ItemSpecials
    /\ At(s, IF s[p] = "\\" THEN p + 2 ELSE p + 1) \notin {"*", "+", "?", "{"}

\* where the run of such items that starts at i ends
LiteralRunEnd(s, i) ==
    LET stops == {p \in i..(Len(s) + 1) : Unescaped(s, i, p) /\ ~PlainItem(s, p)}
    IN  CHOOSE p \in stops : \A q \in stops : p <= q

\* the literals of the run from i to end, which _parse appends one by one
LiteralItems(s, i, end) ==
    LET chars == SelectSeq([k \in 1..(end - i) |-> i + k - 1],
                           LAMBDA p : ~(s[p] = "\\" /\ Unescaped(s, i, p)))
    IN  [k \in DOMAIN chars |-> [k |-> "literal", c |-> s[chars[k]]]]

\* sre_parse._parse_sub and _parse: branches separated by "|", each a
\* sequence of items up to "|", ")" or the end
RECURSIVE ParseSub(_, _, _)
RECURSIVE ParseItems(_, _, _)
ParseAtom(s, i) ==
    LET this == s[i]
        Close(open, body) ==
            IF body.err # "" THEN body
            ELSE IF At(s, body.pos) # ")" THEN ReFail("missing ), unterminated subpattern")
            ELSE ReOK([k |-> "subpattern", cap |-> open.cap, name |-> open.name,
                       p |-> body.node], body.pos + 1)
        Group(open) ==
            IF open.err # "" THEN ReFail(open.err)
            ELSE Close(open, ParseSub(s, open.pos, <<>>))
    IN  IF this = "\\"
        THEN IF At(s, i + 1) = "" THEN ReFail("bad escape (end of pattern)")
             ELSE IF At(s, i + 1) \in {"b", "B"}
             THEN ReOK([k |-> "at", a |-> At(s, i + 1)], i + 2)
             ELSE IF At(s, i + 1) \in CategoryEscapes
             THEN ReOK([k |-> "set", neg |-> FALSE,
                        items |-> CategoryChars(At(s, i + 1))], i + 2)
             ELSE IF isalnum1(At(s, i + 1)) THEN ReFail("escape outside the dialect")
             ELSE ReOK([k |-> "literal", c |-> At(s, i + 1)], i + 2)
        ELSE IF this = "[" THEN ParseSet(s, i)
        ELSE IF this = "." THEN ReOK([k |-> "any"], i + 1)
        ELSE IF this \in {"^", "$"} THEN ReOK([k |-> "at", a |-> this], i + 1)
        ELSE IF this = "(" THEN Group(GroupOpen(s, i))
        ELSE ReOK([k |-> "literal", c |-> this], i + 1)

ParseItems(s, i, acc) ==
    LET Repeated(r, n, last, mode) ==
            IF r.lit THEN ParseItems(s, i + 1, Append(acc, [k |-> "literal", c |-> "{"]))
            ELSE IF r.err # "" THEN ReFail(r.err)
            ELSE IF n = 0 \/ last.k = "at" THEN ReFail("nothing to repeat")
            ELSE IF last.k \in RepeatCodes THEN ReFail("multiple repeat")
            ELSE ParseItems(s, IF mode = "max_repeat" THEN r.pos ELSE r.pos + 1,
                            [acc EXCEPT ![n] =
                                [k |-> mode, min |-> r.min, max |-> r.max,
                                 p |-> IF last.k = "subpattern" /\ ~last.cap
                                       THEN last.p ELSE last]])
        Repeat(r, n) ==
            Repeated(r, n, acc[n],
                     IF At(s, r.pos) = "?" THEN "min_repeat"
                     ELSE IF At(s, r.pos) = "+" THEN "possessive_repeat"
                     ELSE "max_repeat")
        Atom(a) == IF a.err # "" THEN a ELSE ParseItems(s, a.pos, Append(acc, a.node))
    IN  IF At(s, i) \in {"", "|", ")"} THEN ReOK([k |-> "seq", items |-> acc], i)
        ELSE IF s[i] \in {"*", "+", "?", "{"} THEN Repeat(ParseRepeat(s, i), Len(acc))
        ELSE IF PlainItem(s, i)
        THEN ParseItems(s, LiteralRunEnd(s, i),
                        acc \o LiteralItems(s, i, LiteralRunEnd(s, i)))
        ELSE Atom(ParseAtom(s, i))

ParseSub(s, i, branches) ==
    LET Branch(b) ==
            IF b.err # "" THEN b
            ELSE IF At(s, b.pos) = "|" THEN ParseSub(s, b.pos + 1, Append(branches, b.node))
            ELSE ReOK([k |-> "branch", alts |-> Append(branches, b.node)], b.pos)
    IN  Branch(ParseItems(s, i, <<>>))

\* the group names of a tree, in the order of their groups
RECURSIVE GroupNames(_)
RECURSIVE GroupNamesOf(_)
GroupNamesOf(nodes) == Joined([i \in DOMAIN nodes |-> GroupNames(nodes[i])])

GroupNames(node) ==
    CASE node.k = "subpattern" ->
            (IF node.name = <<>> THEN <<>> ELSE <<node.name>>) \o GroupNames(node.p)
      [] node.k = "seq" -> GroupNamesOf(node.items)
      [] node.k = "branch" -> GroupNamesOf(node.alts)
      [] node.k \in RepeatCodes -> GroupNames(node.p)
      [] OTHER -> <<>>

\* re.compile(s): the compiled tree, or the message of the error it raises.
\* Of two errors in one pattern the message may be the other one's.
re_compile(s) ==
    LET Named(r, names) ==
            IF \E i, j \in DOMAIN names : i < j /\ names[i] = names[j]
            THEN ReFail("redefinition of group name")
            ELSE r
        Parsed(r) ==
            IF r.err # "" THEN r
            ELSE IF r.pos <= Len(s) THEN ReFail("unbalanced parenthesis")
            ELSE Named(r, GroupNames(r.node))
    IN  Parsed(ParseSub(s, 1, <<>>))

\* ---- matching: the end positions a tree can reach from position i of the
\* text, in the order the backtracking matcher tries them, each once ----

\* the ends outside seen, each where it comes first
Uniq(ends, seen) ==
    LET first_at == SelectSeq([k \in DOMAIN ends |-> k],
                              LAMBDA k : /\ ends[k] \notin seen
                                         /\ \A j \in 1..(k - 1) : ends[j] # ends[k])
    IN  [k \in DOMAIN first_at |-> ends[first_at[k]]]

isword(c) == isalnum1(c) \/ c = "_"

\* \b at position i: exactly one side is a word character
AtBoundary(t, i) == (i > 1 /\ isword(t[i - 1])) # (i <= Len(t) /\ isword(t[i]))

RECURSIVE Ends(_, _, _)
RECURSIVE SeqEnds(_, _, _, _)
RECURSIVE EachEnd(_, _, _, _)
RECURSIVE BranchEnds(_, _, _, _)
RECURSIVE RepeatEnds(_, _, _, _)
RECURSIVE RepeatEach(_, _, _, _, _)

\* the items from the j-th on, started at i
SeqEnds(items, j, t, i) ==
    IF j > Len(items) THEN <<i>>
    ELSE EachEnd(items, j, t, Ends(items[j], t, i))

\* the rest of a sequence from each end of its j-th item
EachEnd(items, j, t, ends) ==
    Joined([k \in DOMAIN ends |-> SeqEnds(items, j + 1, t, ends[k])])

BranchEnds(alts, j, t, i) ==
    Joined([k \in 1..(Len(alts) + 1 - j) |-> Ends(alts[j + k - 1], t, i)])

\* a greedy or lazy repeat that has made n iterations and stands at i; an
\* iteration beyond the minimum has to move
RepeatEnds(node, t, i, n) ==
    LET more == IF ~IsNone(node.max) /\ BCmp(PyInt(n), node.max) >= 0 THEN <<>>
                ELSE RepeatEach(node, t, i, n, Ends(node.p, t, i))
        stop == IF BCmp(PyInt(n), node.min) >= 0 THEN <<i>> ELSE <<>>
    IN  IF node.k = "min_repeat" THEN stop \o more ELSE more \o stop

RepeatEach(node, t, i, n, ends) ==
    Joined([k \in DOMAIN ends |->
               IF ends[k] = i /\ BCmp(PyInt(n), node.min) >= 0 THEN <<>>
               ELSE RepeatEnds(node, t, ends[k], n + 1)])

\* a node that takes exactly one character where it matches
OneChar(node) == node.k \in {"literal", "any", "set"}

\* a repeat of such a node: it can take the n characters from i on for every
\* n its bounds allow, up to the first character the node refuses; a greedy
\* repeat tries the longest first, a lazy one the shortest.  It is what
\* RepeatEnds gives, found without one level of evaluation per character.
CharRepeatEnds(node, t, i) ==
    LET refused == {p \in i..Len(t) : Ends(node.p, t, p) = <<>>}
        longest == (IF refused = {} THEN Len(t) + 1
                    ELSE CHOOSE p \in refused : \A q \in refused : p <= q) - i
        Allowed(n) ==
            /\ BCmp(PyInt(n), node.min) >= 0
            /\ IsNone(node.max) \/ BCmp(PyInt(n), node.max) <= 0
        rising == SelectSeq([n \in 1..(longest + 1) |-> n - 1], Allowed)
    IN  IF node.k = "min_repeat" THEN [j \in DOMAIN rising |-> i + rising[j]]
        ELSE [j \in DOMAIN rising |-> i + rising[Len(rising) + 1 - j]]

\* the ends of a repeat, in the order the matcher tries them
AllRepeatEnds(node, t, i) ==
    IF OneChar(node.p) THEN CharRepeatEnds(node, t, i) ELSE RepeatEnds(node, t, i, 0)

Ends(node, t, i) ==
    CASE node.k = "literal" -> IF At(t, i) = node.c THEN <<i + 1>> ELSE <<>>
      [] node.k = "any" -> IF i <= Len(t) THEN <<i + 1>> ELSE <<>>
      [] node.k = "set" ->
            IF i <= Len(t) /\ ((t[i] \in node.items) # node.neg) THEN <<i + 1>> ELSE <<>>
      [] node.k = "at" ->
            IF \/ node.a = "^" /\ i = 1
               \/ node.a = "$" /\ i = Len(t) + 1
               \/ node.a = "b" /\ AtBoundary(t, i)
               \/ node.a = "B" /\ t # <<>> /\ ~AtBoundary(t, i)
            THEN <<i>> ELSE <<>>
      [] node.k = "subpattern" -> Ends(node.p, t, i)
      [] node.k = "seq" -> Uniq(SeqEnds(node.items, 1, t, i), {})
      [] node.k = "branch" -> Uniq(BranchEnds(node.alts, 1, t, i), {})
      [] node.k \in {"max_repeat", "min_repeat"} -> Uniq(AllRepeatEnds(node, t, i), {})
      [] node.k = "possessive_repeat" ->
            LET ends == AllRepeatEnds(node, t, i)
            IN  IF ends = <<>> THEN <<>> ELSE <<Head(ends)>>

\* compiled.fullmatch(t) is not None
fullmatch(compiled, t) ==
    LET Reaches(ends) == \E j \in DOMAIN ends : ends[j] = Len(t) + 1
    IN  Reaches(Ends(compiled, t, 1))

\* compiled.match(t) is not None: a match that starts at the start of t
match(compiled, t) == Ends(compiled, t, 1) # <<>>

\* ------------------------------------------------------------------------
\* Fitness scoring (scoring/fitness.py)
\* ------------------------------------------------------------------------

\* PatternAST(root), with its to_regex and complexity
PatternAST(root) == [root |-> root]

ScoringModes == {"minimal", "readable", "balanced"}

\* the default weights of a mode: correctness, complexity, readability,
\* performance
ModeWeights(mode) ==
    IF mode = "minimal"
    THEN << Flt(<<13107, 26214, 19660, 153>>, -53),     \* 0.6
            Flt(<<13107, 26214, 19660, 153>>, -54),     \* 0.3
            Flt(<<6554, 13107, 26214, 204>>, -57),      \* 0.05
            Flt(<<6554, 13107, 26214, 204>>, -57) >>    \* 0.05
    ELSE IF mode = "readable"
    THEN << Flt(<<0, 0, 0, 128>>, -53),                 \* 0.5
            Flt(<<6554, 13107, 26214, 204>>, -56),      \* 0.1
            Flt(<<13107, 26214, 19660, 153>>, -54),     \* 0.3
            Flt(<<6554, 13107, 26214, 204>>, -56) >>    \* 0.1
    ELSE << Flt(<<0, 0, 0, 128>>, -53),                 \* 0.5
            Flt(<<6554, 13107, 26214, 204>>, -55),      \* 0.2
            Flt(<<6554, 13107, 26214, 204>>, -55),      \* 0.2
            Flt(<<6554, 13107, 26214, 204>>, -56) >>    \* 0.1

\* the scorer with its weights w divided by their sum
NormalizedScorer(mode, timeout_seconds, w, total_weight) ==
    [class |-> "MultiCriteriaScorer",
     mode |-> mode,
     timeout_seconds |-> timeout_seconds,
     correctness_weight |-> FDiv(w[1], total_weight),
     complexity_weight |-> FDiv(w[2], total_weight),
     readability_weight |-> FDiv(w[3], total_weight),
     performance_weight |-> FDiv(w[4], total_weight)]

WeightedScorer(mode, timeout_seconds, w) ==
    NormalizedScorer(mode, timeout_seconds, w, FAdd(FAdd(FAdd(w[1], w[2]), w[3]), w[4]))

\* MultiCriteriaScorer(mode=mode, timeout_seconds=timeout_seconds): no weight
\* is passed, so each is its mode's default, and then all are normalized
MultiCriteriaScorer(mode, timeout_seconds) ==
    WeightedScorer(mode, timeout_seconds, ModeWeights(mode))

\* how many of the examples fullmatch does (wanted) or does not match
Matching(compiled_pattern, examples, wanted) ==
    Cardinality({i \in DOMAIN examples : fullmatch(compiled_pattern, examples[i]) = wanted})

\* score *= 0.1 if no positive example matched
CorrectnessPenalized(positive_matches, weighted) ==
    IF positive_matches = 0
    THEN FMul(weighted, Flt(<<6554, 13107, 26214, 204>>, -56)) ELSE weighted

CorrectnessScore(total_positive, total_negative, positive_matches, positive_ratio, negative_ratio) ==
    IF total_positive = 0 /\ total_negative = 0 THEN F1
    ELSE IF total_positive = 0 THEN negative_ratio
    ELSE IF total_negative = 0 THEN positive_ratio
    \* 0.8 * positive_ratio + 0.2 * negative_ratio
    ELSE CorrectnessPenalized(positive_matches,
             FAdd(FMul(Flt(<<6554, 13107, 26214, 204>>, -53), positive_ratio),
                  FMul(Flt(<<6554, 13107, 26214, 204>>, -55), negative_ratio)))

CorrectnessResult(total_positive, total_negative, positive_matches, negative_matches) ==
    [score |-> CorrectnessScore(total_positive, total_negative, positive_matches,
                                FDiv(FInt(positive_matches), FInt(total_positive)),
                                FDiv(FInt(negative_matches), FInt(total_negative))),
     positive_matches |-> positive_matches,
     negative_matches |-> negative_matches]

_evaluate_correctness(compiled_pattern, positive_examples, negative_examples) ==
    CorrectnessResult(Len(positive_examples), Len(negative_examples),
                      Matching(compiled_pattern, positive_examples, TRUE),
                      Matching(compiled_pattern, negative_examples, FALSE))

\* 1.0 / (1.0 + normalized_complexity)
ComplexitySigmoid(normalized_complexity) == FDiv(F1, FAdd(F1, normalized_complexity))

\* max_reasonable_complexity = 100
_evaluate_complexity(pattern) ==
    ComplexitySigmoid(FDiv(FInt(complexity(pattern.root)), Flt(<<0, 0, 0, 200>>, -46)))

\* 0.9 ** (k / 10) for k = 1 .. 70, as the C library's pow returns it: the
\* penalty of a serialized pattern of 50 + k characters
PowNineTenths ==
    << [neg |-> FALSE, m |-> <<16506, 5424, 10385, 253>>, e |-> -53],
       [neg |-> FALSE, m |-> <<14109, 25745, 21691, 250>>, e |-> -53],
       [neg |-> FALSE, m |-> <<29843, 6648, 1142, 248>>, e |-> -53],
       [neg |-> FALSE, m |-> <<25808, 28209, 14262, 245>>, e |-> -53],
       [neg |-> FALSE, m |-> <<28054, 9944, 28276, 242>>, e |-> -53],
       [neg |-> FALSE, m |-> <<15259, 5690, 10405, 240>>, e |-> -53],
       [neg |-> FALSE, m |-> <<15828, 6960, 26176, 237>>, e |-> -53],
       [neg |-> FALSE, m |-> <<20073, 8448, 10044, 235>>, e |-> -53],
       [neg |-> FALSE, m |-> <<2264, 7995, 27536, 232>>, e |-> -53],
       [neg |-> FALSE, m |-> <<19661, 6553, 13107, 230>>, e |-> -53],
       [neg |-> FALSE, m |-> <<27962, 8158, 32284, 227>>, e |-> -53],
       [neg |-> FALSE, m |-> <<2868, 19894, 19522, 225>>, e |-> -53],
       [neg |-> FALSE, m |-> <<7198, 19091, 7581, 223>>, e |-> -53],
       [neg |-> FALSE, m |-> <<6844, 18835, 29220, 220>>, e |-> -53],
       [neg |-> FALSE, m |-> <<25249, 2396, 18895, 218>>, e |-> -53],
       [neg |-> FALSE, m |-> <<13734, 21505, 9364, 216>>, e |-> -53],
       [neg |-> FALSE, m |-> <<27353, 32478, 620, 214>>, e |-> -53],
       [neg |-> FALSE, m |-> <<18066, 27264, 25423, 211>>, e |-> -53],
       [neg |-> FALSE, m |-> <<31529, 641, 18229, 209>>, e |-> -53],
       [neg |-> FALSE, m |-> <<20972, 15728, 11796, 207>>, e |-> -53],
       [neg |-> FALSE, m |-> <<31720, 7342, 6118, 205>>, e |-> -53],
       [neg |-> FALSE, m |-> <<2581, 11351, 1186, 203>>, e |-> -53],
       [neg |-> FALSE, m |-> <<3202, 798, 29761, 200>>, e |-> -53],
       [neg |-> FALSE, m |-> <<22544, 16951, 26298, 198>>, e |-> -53],
       [neg |-> FALSE, m |-> <<29278, 5433, 23559, 196>>, e |-> -53],
       [neg |-> FALSE, m |-> <<9084, 12801, 21535, 194>>, e |-> -53],
       [neg |-> FALSE, m |-> <<11510, 22677, 20219, 192>>, e |-> -53],
       [neg |-> FALSE, m |-> <<9706, 21261, 19604, 190>>, e |-> -53],
       [neg |-> FALSE, m |-> <<31653, 30068, 19682, 188>>, e |-> -53],
       [neg |-> FALSE, m |-> <<5768, 7602, 20447, 186>>, e |-> -53],
       [neg |-> FALSE, m |-> <<8887, 13162, 21890, 184>>, e |-> -53],
       [neg |-> FALSE, m |-> <<31814, 10215, 24005, 182>>, e |-> -53],
       [neg |-> FALSE, m |-> <<15989, 30209, 26784, 180>>, e |-> -53],
       [neg |-> FALSE, m |-> <<30120, 8702, 30222, 178>>, e |-> -53],
       [neg |-> FALSE, m |-> <<29627, 14720, 1542, 177>>, e |-> -53],
       [neg |-> FALSE, m |-> <<18006, 21351, 6274, 175>>, e |-> -53],
       [neg |-> FALSE, m |-> <<20190, 4025, 11644, 173>>, e |-> -53],
       [neg |-> FALSE, m |-> <<31673, 6027, 17644, 171>>, e |-> -53],
       [neg |-> FALSE, m |-> <<8827, 7401, 24268, 169>>, e |-> -53],
       [neg |-> FALSE, m |-> <<31405, 23225, 31509, 167>>, e |-> -53],
       [neg |-> FALSE, m |-> <<14553, 5292, 6594, 166>>, e |-> -53],
       [neg |-> FALSE, m |-> <<18803, 5917, 15051, 164>>, e |-> -53],
       [neg |-> FALSE, m |-> <<11114, 14081, 24106, 162>>, e |-> -53],
       [neg |-> FALSE, m |-> <<27108, 20939, 985, 161>>, e |-> -53],
       [neg |-> FALSE, m |-> <<13557, 19802, 11218, 159>>, e |-> -53],
       [neg |-> FALSE, m |-> <<6375, 6109, 22031, 157>>, e |-> -53],
       [neg |-> FALSE, m |-> <<21448, 10176, 649, 156>>, e |-> -53],
       [neg |-> FALSE, m |-> <<18676, 31639, 12602, 154>>, e |-> -53],
       [neg |-> FALSE, m |-> <<4667, 6661, 25118, 152>>, e |-> -53],
       [neg |-> FALSE, m |-> <<11881, 4519, 5421, 151>>, e |-> -53],
       [neg |-> FALSE, m |-> <<19651, 30977, 19041, 149>>, e |-> -53],
       [neg |-> FALSE, m |-> <<13646, 28263, 438, 148>>, e |-> -53],
       [neg |-> FALSE, m |-> <<19833, 6119, 15142, 146>>, e |-> -53],
       [neg |-> FALSE, m |-> <<14567, 9015, 30378, 144>>, e |-> -53],
       [neg |-> FALSE, m |-> <<5648, 17822, 13373, 143>>, e |-> -53],
       [neg |-> FALSE, m |-> <<22122, 15328, 29658, 141>>, e |-> -53],
       [neg |-> FALSE, m |-> <<12750, 18989, 13691, 140>>, e |-> -53],
       [neg |-> FALSE, m |-> <<13531, 15368, 31003, 138>>, e |-> -53],
       [neg |-> FALSE, m |-> <<27138, 25655, 16052, 137>>, e |-> -53],
       [neg |-> FALSE, m |-> <<7416, 7344, 1602, 136>>, e |-> -53],
       [neg |-> FALSE, m |-> <<14409, 18049, 20414, 134>>, e |-> -53],
       [neg |-> FALSE, m |-> <<15558, 18883, 6948, 133>>, e |-> -53],
       [neg |-> FALSE, m |-> <<21126, 5507, 26735, 131>>, e |-> -53],
       [neg |-> FALSE, m |-> <<29494, 8113, 14233, 130>>, e |-> -53],
       [neg |-> FALSE, m |-> <<11637, 25870, 2205, 129>>, e |-> -53],
       [neg |-> FALSE, m |-> <<498, 21038, 14063, 255>>, e |-> -54],
       [neg |-> FALSE, m |-> <<9842, 27627, 24644, 252>>, e |-> -54],
       [neg |-> FALSE, m |-> <<30910, 14555, 3377, 250>>, e |-> -54],
       [neg |-> FALSE, m |-> <<22635, 26519, 15787, 247>>, e |-> -54],
       [neg |-> FALSE, m |-> <<19903, 13219, 29098, 244>>, e |-> -54] >>

\* the longest serialized pattern whose length penalty is tabulated
MaxRegexLen == 50 + Len(PowNineTenths)

\* readability_score *= base ** excess, if excess > 0
Penalize(readability_score, base, excess) ==
    IF excess > 0 THEN FMul(readability_score, FPowInt(base, excess))
    ELSE readability_score

\* readability_score *= 0.9 ** ((len(regex_str) - 50) / 10), if len > 50
PenalizeLength(readability_score, excess) ==
    IF excess > 0 THEN FMul(readability_score, PowNineTenths[excess])
    ELSE readability_score

\* max(0.0, min(1.0, readability_score))
Clamp(readability_score) == FMax(F0, FMin(F1, readability_score))

_evaluate_readability(pattern, regex_str) ==
    Clamp(Penalize(
            Penalize(
              PenalizeLength(
                Penalize(F1, Flt(<<6554, 13107, 26214, 204>>, -53),       \* 0.8
                         _calculate_nesting_depth(pattern.root) - 3),
                Len(regex_str) - 50),
              Flt(<<26214, 19660, 6553, 243>>, -53),                      \* 0.95
              count(regex_str, "{") - 2),
            Flt(<<19661, 6553, 13107, 230>>, -53),                        \* 0.9
            count(regex_str, "|") - 3))

\* the performance loop before its k-th test string, `elapsed` after its
\* start; durations[k] is how long the k-th fullmatch and search take
RECURSIVE PerformanceLoop(_, _, _, _, _)
PerformanceLoop(timeout_seconds, durations, k, n, elapsed) ==
    IF k > n THEN [timeout_occurred |-> FALSE, execution_time |-> elapsed]
    ELSE IF FGt(elapsed, timeout_seconds)
    THEN [timeout_occurred |-> TRUE, execution_time |-> elapsed]
    ELSE PerformanceLoop(timeout_seconds, durations, k + 1, n, FAdd(elapsed, durations[k]))

\* the score of a performance pass, max_acceptable_time = timeout_seconds / 2
Timed(loop, max_acceptable_time) ==
    IF loop.timeout_occurred THEN [score |-> F0, timeout_occurred |-> TRUE]
    \* ZeroDivisionError, caught by the except clause
    ELSE IF FIsZero(max_acceptable_time) THEN [score |-> F0, timeout_occurred |-> TRUE]
    ELSE [score |-> FDiv(F1, FAdd(F1, FDiv(loop.execution_time, max_acceptable_time))),
          timeout_occurred |-> FALSE]

_evaluate_performance(self, test_strings, durations) ==
    IF test_strings = <<>> THEN [score |-> F1, timeout_occurred |-> FALSE]
    ELSE Timed(PerformanceLoop(self.timeout_seconds, durations, 1,
                               Min(100, Len(test_strings)), F0),
               FDiv(self.timeout_seconds, Flt(<<0, 0, 0, 128>>, -51)))

\* FitnessResult(...), without evaluation_time_ms; raised is "" in a result
\* and names the exception of a call that returned none
FitnessResult(total_score, correctness_score, complexity_score, readability_score, performance_score, positive_matches, negative_matches, positive_total, negative_total, timeout_occurred, compilation_error) ==
    [raised |-> "",
     total_score |-> total_score,
     correctness_score |-> correctness_score,
     complexity_score |-> complexity_score,
     readability_score |-> readability_score,
     performance_score |-> performance_score,
     positive_matches |-> positive_matches,
     negative_matches |-> negative_matches,
     positive_total |-> positive_total,
     negative_total |-> negative_total,
     timeout_occurred |-> timeout_occurred,
     compilation_error |-> compilation_error]

\* the result of the except clause of score: re.error was caught
CompilationFailure(positive_examples, negative_examples, compilation_error) ==
    FitnessResult(F0, F0, F0, F0, F0, 0, 0, Len(positive_examples),
                  Len(negative_examples), FALSE, compilation_error)

\* the weighted sum of the four scores, added in the order of the source
TotalScore(self, correctness_score, complexity_score, readability_score, performance_score) ==
    FAdd(FAdd(FAdd(FMul(self.correctness_weight, correctness_score),
                   FMul(self.complexity_weight, complexity_score)),
              FMul(self.readability_weight, readability_score)),
         FMul(self.performance_weight, performance_score))

ScoreEvaluated(self, positive_examples, negative_examples, correctness_result, complexity_score, readability_score, performance_result) ==
    FitnessResult(TotalScore(self, correctness_result.score, complexity_score,
                             readability_score, performance_result.score),
                  correctness_result.score, complexity_score, readability_score,
                  performance_result.score, correctness_result.positive_matches,
                  correctness_result.negative_matches, Len(positive_examples),
                  Len(negative_examples), performance_result.timeout_occurred, "")

ScoreCompiled(self, pattern, positive_examples, negative_examples, durations, regex_str, compiled_pattern) ==
    \* re.compile raises OverflowError, which is no re.error
    IF compiled_pattern.err = TooLarge THEN [raised |-> "OverflowError"]
    ELSE IF compiled_pattern.err # ""
    THEN CompilationFailure(positive_examples, negative_examples, compiled_pattern.err)
    \* _calculate_nesting_depth raises ValueError
    ELSE IF DepthRaises(pattern.root) THEN [raised |-> "ValueError"]
    ELSE ScoreEvaluated(self, positive_examples, negative_examples,
                        _evaluate_correctness(compiled_pattern.node,
                                              positive_examples, negative_examples),
                        _evaluate_complexity(pattern),
                        _evaluate_readability(pattern, regex_str),
                        _evaluate_performance(self, positive_examples \o negative_examples,
                                              durations))

ScoreSerialized(self, pattern, positive_examples, negative_examples, durations, regex_str) ==
    ScoreCompiled(self, pattern, positive_examples, negative_examples, durations,
                  regex_str, re_compile(regex_str))

\* score(pattern, positive_examples, negative_examples), with the time its
\* match calls take; raised names the exception that leaves it, if any
score(self, pattern, positive_examples, negative_examples, durations) ==
    ScoreSerialized(self, pattern, positive_examples, negative_examples, durations,
                    to_regex(pattern.root))

\* SimpleFitnessScorer(); class tells the two scorers apart
SimpleFitnessScorer == [class |-> "SimpleFitnessScorer"]

\* total_correct / total_examples if total_examples > 0 else 1.0
SimpleRatio(total_correct, total_examples) ==
    IF total_examples > 0 THEN FDiv(FInt(total_correct), FInt(total_examples)) ELSE F1

SimpleResult(positive_examples, negative_examples, positive_matches, negative_matches, ratio) ==
    FitnessResult(ratio, ratio, F0, F0, F0, positive_matches, negative_matches,
                  Len(positive_examples), Len(negative_examples), FALSE, "")

SimpleCounted(positive_examples, negative_examples, positive_matches, negative_matches) ==
    SimpleResult(positive_examples, negative_examples, positive_matches, negative_matches,
                 SimpleRatio(positive_matches + negative_matches,
                             Len(positive_examples) + Len(negative_examples)))

SimpleCompiled(positive_examples, negative_examples, compiled_pattern) ==
    IF compiled_pattern.err = TooLarge THEN [raised |-> "OverflowError"]
    ELSE IF compiled_pattern.err # ""
    THEN CompilationFailure(positive_examples, negative_examples, compiled_pattern.err)
    ELSE SimpleCounted(positive_examples, negative_examples,
                       Matching(compiled_pattern.node, positive_examples, TRUE),
                       Matching(compiled_pattern.node, negative_examples, FALSE))

\* SimpleFitnessScorer.score: correct / total, and no other criterion
simple_score(pattern, positive_examples, negative_examples) ==
    SimpleCompiled(positive_examples, negative_examples,
                   re_compile(to_regex(pattern.root)))

\* fitness_scorer.score(pattern, positive_examples, negative_examples), on
\* whichever scorer the caller holds
scorer_score(fitness_scorer, pattern, positive_examples, negative_examples, durations) ==
    IF fitness_scorer.class = "SimpleFitnessScorer"
    THEN simple_score(pattern, positive_examples, negative_examples)
    ELSE score(fitness_scorer, pattern, positive_examples, negative_examples, durations)

\* ------------------------------------------------------------------------
\* Mutation (patterns/mutations.py).  An operator's apply draws at random,
\* so it is the set of the nodes it can return; a draw from a long list is
\* made from a few members of it.
\* ------------------------------------------------------------------------

\* string.ascii_letters, and string.printable[:62]: digits and letters
AsciiLetters == LowerChars \cup UpperChars

Printable62 == DigitChars \cup LowerChars \cup UpperChars

\* the characters random.choice is let to draw from a pool of characters
SampledChars == {"a", "b", "0"}

Sampled(pool) == pool \cap SampledChars

\* the outcome of a call that returns a node, or raises
Node(node) == [raised |-> "", node |-> node]

NodeRaises(exception) == [raised |-> exception, node |-> WildcardNode]

islower(str) == str # <<>> /\ \A i \in DOMAIN str : str[i] \in LowerChars

isupper(str) == str # <<>> /\ \A i \in DOMAIN str : str[i] \in UpperChars

MutationOperators ==
    << "literal_to_char_class", "char_class_to_range", "add_quantifier",
       "modify_quantifier", "grouping", "alternation", "wildcard" >>

can_apply(op, node) ==
    CASE op = "literal_to_char_class" ->
            node.type = "literal" /\ Len(node.value) = 1 /\ isalpha(node.value)
      [] op = "char_class_to_range" ->
            node.type = "character_class" /\ Cardinality(node.characters) > 3
      [] op = "add_quantifier" -> node.type \notin {"quantifier", "anchor"}
      [] op = "modify_quantifier" -> node.type = "quantifier"
      [] op = "grouping" -> TRUE
      [] op = "alternation" -> TRUE
      [] op = "wildcard" -> node.type \in {"wildcard", "character_class", "literal"}

LiteralToCharClassMutation(node) ==
    IF node.type # "literal" THEN {Node(node)}
    ELSE IF islower(node.value) THEN {Node(CharacterClassNode(LowerChars, FALSE, <<>>))}
    ELSE IF isupper(node.value) THEN {Node(CharacterClassNode(UpperChars, FALSE, <<>>))}
    ELSE IF isdigit(node.value) THEN {Node(CharacterClassNode(DigitChars, FALSE, <<>>))}
    ELSE {Node(node)}

\* the index after the run of consecutive characters that chars[j - 1] is in
RECURSIVE RunEnd(_, _)
RunEnd(chars, j) ==
    IF j <= Len(chars) /\ ord(chars[j]) = ord(chars[j - 1]) + 1
    THEN RunEnd(chars, j + 1) ELSE j

\* the runs of three or more consecutive characters, from chars[i] on
RECURSIVE ConsecutiveRanges(_, _)
ConsecutiveRanges(chars, i) ==
    LET Run(j) ==
            (IF j - i >= 3 THEN << <<chars[i], chars[j - 1]>> >> ELSE <<>>)
            \o ConsecutiveRanges(chars, IF j > i + 1 THEN j ELSE i + 1)
    IN  IF i > Len(chars) THEN <<>> ELSE Run(RunEnd(chars, i + 1))

RECURSIVE RangeChars(_)
RangeChars(ranges) ==
    IF ranges = <<>> THEN {}
    ELSE CharRange(Head(ranges)[1], Head(ranges)[2]) \cup RangeChars(Tail(ranges))

CharClassToRangeMutation(node) ==
    LET Ranged(ranges) ==
            {Node(CharacterClassNode(node.characters \ RangeChars(ranges),
                                     node.negated, ranges \o node.ranges))}
    IN  IF node.type # "character_class" THEN {Node(node)}
        ELSE Ranged(ConsecutiveRanges(sorted(node.characters), 1))

quantifier_types ==
    << <<PyInt(0), PyInt(1)>>, <<PyInt(0), None>>, <<PyInt(1), None>>,
       <<PyInt(2), PyInt(4)>>, <<PyInt(1), PyInt(3)>> >>

AddQuantifierMutation(node) ==
    { Node(QuantifierNode(clone(node), quantifier_types[k][1], quantifier_types[k][2],
                          FALSE)) : k \in DOMAIN quantifier_types }

\* max(0, n + delta) for an int n >= 0 and a small delta
ClampedAdd(n, delta) ==
    IF delta >= 0 THEN BAdd(n, PyInt(delta))
    ELSE IF BCmp(n, PyInt(-delta)) <= 0 THEN PyInt(0)
    ELSE BSub(n, PyInt(-delta))

BMax(a, b) == IF BCmp(a, b) >= 0 THEN a ELSE b

\* random.choice([-1, 0, 1])
BoundDeltas == {-1, 0, 1}

\* what random.randint(new_min + 1, new_min + 5) is let to add to new_min
SampledOffsets == {1, 5}

\* ModifyQuantifierMutation without new_min as the floor of new_max
ModifyQuantifierUnclamped(node) ==
    LET Bounded(new_min, new_max) ==
            Node(QuantifierNode(clone(node.child), new_min, new_max, node.lazy))
        \* max_count is None: it stays None, or becomes new_min + 1 .. new_min + 5
        FromUnbounded(new_min) ==
            {Bounded(new_min, None)}
            \cup {Bounded(new_min, BAdd(new_min, PyInt(k))) : k \in SampledOffsets}
        \* and otherwise moves with new_min as its floor, and may become None
        \* when the two meet
        Moved(new_min, new_max) ==
            {Bounded(new_min, new_max)}
            \cup (IF new_max = new_min THEN {Bounded(new_min, None)} ELSE {})
        FromBounded(new_min) ==
            UNION {Moved(new_min, ClampedAdd(node.max_count, d)) :
                       d \in BoundDeltas}
        Bounds(new_min) ==
            IF IsNone(node.max_count) THEN FromUnbounded(new_min)
            ELSE FromBounded(new_min)
    IN  IF node.type # "quantifier" THEN {Node(node)}
        ELSE UNION {Bounds(ClampedAdd(node.min_count, d)) : d \in BoundDeltas}
             \cup {Node(QuantifierNode(clone(node.child), node.min_count,
                                       node.max_count, ~node.lazy))}

\* ModifyQuantifierMutation.apply, under every draw
ModifyQuantifierMutation(node) ==
    LET Bounded(new_min, new_max) ==
            Node(QuantifierNode(clone(node.child), new_min, new_max, node.lazy))
        \* max_count is None: it stays None, or becomes new_min + 1 .. new_min + 5
        FromUnbounded(new_min) ==
            {Bounded(new_min, None)}
            \cup {Bounded(new_min, BAdd(new_min, PyInt(k))) : k \in SampledOffsets}
        \* and otherwise moves with new_min as its floor, and may become None
        \* when the two meet
        Moved(new_min, new_max) ==
            {Bounded(new_min, new_max)}
            \cup (IF new_max = new_min THEN {Bounded(new_min, None)} ELSE {})
        FromBounded(new_min) ==
            UNION {Moved(new_min, BMax(new_min, ClampedAdd(node.max_count, d))) :
                       d \in BoundDeltas}
        Bounds(new_min) ==
            IF IsNone(node.max_count) THEN FromUnbounded(new_min)
            ELSE FromBounded(new_min)
    IN  IF node.type # "quantifier" THEN {Node(node)}
        ELSE UNION {Bounds(ClampedAdd(node.min_count, d)) : d \in BoundDeltas}
             \cup {Node(QuantifierNode(clone(node.child), node.min_count,
                                       node.max_count, ~node.lazy))}

GroupingMutation(node) ==
    IF node.type = "group" THEN {Node(clone(node.child))}
    ELSE {Node(GroupNode(clone(node), capturing, <<>>)) : capturing \in BOOLEAN}

\* the first k and the last k of a set of characters in code point order:
\* what random.sample is let to draw
SampledSubsets(chars, k) ==
    LET FirstAndLast(ordered) ==
            { {ordered[i] : i \in 1..k},
              {ordered[i] : i \in (Len(ordered) - k + 1)..Len(ordered)} }
    IN  FirstAndLast(sorted(chars))

_generate_similar_pattern(node) ==
    IF node.type = "literal"
    THEN { LiteralNode(<<new_char>>) :
               new_char \in Sampled(IF isalpha(node.value) THEN AsciiLetters
                                    ELSE IF isdigit(node.value) THEN DigitChars
                                    ELSE Printable62) }
    ELSE IF node.type = "character_class"
    THEN { CharacterClassNode(new_chars \cup {new_char}, FALSE, <<>>) :
               new_chars \in SampledSubsets(node.characters,
                                            Min(3, Cardinality(node.characters))),
               new_char \in Sampled(AsciiLetters) }
    ELSE { LiteralNode(<<new_char>>) : new_char \in Sampled(LowerChars) }

\* alts without its i-th member
Without(alts, i) == SubSeq(alts, 1, i - 1) \o SubSeq(alts, i + 1, Len(alts))

AlternationMutation(node) ==
    LET Removed ==
            IF Len(node.alternatives) > 1
            THEN { Node(AlternationNode(CloneAll(Without(node.alternatives, i)))) :
                       i \in DOMAIN node.alternatives }
            ELSE {}
        \* node.alternatives[0] of no alternatives raises IndexError
        Added ==
            IF node.alternatives = <<>> THEN {NodeRaises("IndexError")}
            ELSE { Node(AlternationNode(Append(CloneAll(node.alternatives), new_alt))) :
                       new_alt \in _generate_similar_pattern(node.alternatives[1]) }
    IN  IF node.type = "alternation" THEN Removed \cup Added
        ELSE { Node(AlternationNode(<<clone(node), similar_pattern>>)) :
                   similar_pattern \in _generate_similar_pattern(node) }

WildcardMutation(node) ==
    IF node.type = "wildcard"
    THEN { Node(CharacterClassNode(char_set, FALSE, <<>>)) :
               char_set \in {LowerChars, UpperChars, DigitChars, AsciiLetters, Printable62} }
    ELSE IF node.type = "character_class" THEN {Node(WildcardNode), Node(node)}
    ELSE IF node.type = "literal" THEN {Node(WildcardNode)}
    ELSE {Node(node)}

\* chosen_op.apply(node), under every draw
apply(op, node) ==
    CASE op = "literal_to_char_class" -> LiteralToCharClassMutation(node)
      [] op = "char_class_to_range" -> CharClassToRangeMutation(node)
      [] op = "add_quantifier" -> AddQuantifierMutation(node)
      [] op = "modify_quantifier" -> ModifyQuantifierMutation(node)
      [] op = "grouping" -> GroupingMutation(node)
      [] op = "alternation" -> AlternationMutation(node)
      [] op = "wildcard" -> WildcardMutation(node)

PatternMutator(mutation_rate) ==
    [mutation_rate |-> mutation_rate, operators |-> MutationOperators]

RECURSIVE _collect_nodes(_)
RECURSIVE CollectAll(_)
CollectAll(alts) ==
    IF alts = <<>> THEN <<>> ELSE _collect_nodes(Head(alts)) \o CollectAll(Tail(alts))

_collect_nodes(root) ==
    <<root>> \o (IF root.type \in {"quantifier", "group"} THEN _collect_nodes(root.child)
                 ELSE IF root.type = "alternation" THEN CollectAll(root.alternatives)
                 ELSE <<>>)

\* random.random(): its least and its greatest value, 0.0 and 1 - 2^-53
RandomDraws == {F0, Flt(<<32767, 32767, 32767, 255>>, -53)}

\* the outcome of a call that returns a pattern, or raises
Pattern(pattern) == [raised |-> "", pattern |-> pattern]

PatternRaises(exception) == [raised |-> exception, pattern |-> PatternAST(WildcardNode)]

\* mutate(pattern), under every draw: each node is mutated when its draw is
\* below mutation_rate, by one of the operators that apply to it, and the
\* pattern returned has nodes[0], the root's place in the list, as its root
mutate(self, pattern) ==
    LET may_mutate == \E u \in RandomDraws : FLt(u, self.mutation_rate)
        may_spare == \E u \in RandomDraws : ~FLt(u, self.mutation_rate)
        applicable_ops(node) ==
            {self.operators[k] : k \in {j \in DOMAIN self.operators :
                                           can_apply(self.operators[j], node)}}
        \* what the loop can put at a node's place in the list, or raise there
        Mutated(node) ==
            (IF may_mutate THEN UNION {apply(op, node) : op \in applicable_ops(node)} ELSE {})
            \cup (IF may_spare THEN {Node(node)} ELSE {})
        Rebuilt(nodes) ==
            { Pattern(PatternAST(outcome.node)) :
                  outcome \in {o \in Mutated(nodes[1]) : o.raised = ""} }
            \cup { PatternRaises(outcome.raised) :
                       outcome \in {o \in UNION {Mutated(nodes[i]) : i \in DOMAIN nodes} :
                                       o.raised # ""} }
    IN  Rebuilt(_collect_nodes(clone(pattern.root)))

\* ---- mutate on the heap ---------------------------------------------------

\* every object that the node at an address reaches: the nodes, and their
\* sets and lists
RECURSIVE Objects(_, _)
Objects(heap, at) ==
    CASE heap[at].type = "character_class" -> {at, heap[at].characters, heap[at].ranges}
      [] heap[at].type \in {"quantifier", "group"} -> {at} \cup Objects(heap, heap[at].child)
      [] heap[at].type = "alternation" ->
            {at, heap[at].alternatives}
            \cup UNION {Objects(heap, heap[heap[at].alternatives].items[i]) :
                            i \in DOMAIN heap[heap[at].alternatives].items}
      [] OTHER -> {at}

\* a change of an object in place: of a set or list as in Changed, of a node
\* by an assignment to one of its fields
Touched(object) ==
    CASE object.type \in {"characters", "ranges", "alternatives"} -> Changed(object)
      [] object.type = "literal" -> [object EXCEPT !.value = <<"z">>]
      [] object.type = "character_class" -> [object EXCEPT !.negated = ~@]
      [] object.type = "quantifier" -> [object EXCEPT !.lazy = ~@]
      [] object.type = "group" -> [object EXCEPT !.capturing = ~@]
      [] object.type = "anchor" -> [object EXCEPT !.anchor_type = <<"\\", "b">>]
      [] OTHER -> object

\* LiteralToCharClassMutation and WildcardMutation have a return of the node
\* they were given; every other return of an operator is a node made in the
\* call, around clones and new sets and lists
ReturnsNode(op, node, outcome) ==
    op \in {"literal_to_char_class", "wildcard"} /\ outcome.node = node

\* chosen_op.apply(node) for the node at an address
ApplyAt(heap, op, at) ==
    { IF ReturnsNode(op, Load(heap, at), outcome) THEN [heap |-> heap, at |-> at]
      ELSE Alloc(heap, outcome.node) :
          outcome \in {o \in apply(op, Load(heap, at)) : o.raised = ""} }

\* _collect_nodes(root) for the root at an address: the addresses of the
\* nodes, the root first
RECURSIVE CollectAt(_, _)
RECURSIVE CollectAllAt(_, _)
CollectAllAt(heap, ats) ==
    IF ats = <<>> THEN <<>>
    ELSE CollectAt(heap, Head(ats)) \o CollectAllAt(heap, Tail(ats))

CollectAt(heap, at) ==
    <<at>> \o (IF heap[at].type \in {"quantifier", "group"}
               THEN CollectAt(heap, heap[at].child)
               ELSE IF heap[at].type = "alternation"
               THEN CollectAllAt(heap, heap[heap[at].alternatives].items)
               ELSE <<>>)

\* the loop of mutate and the rebinding of the root, from new_pattern on.
\* Each node of the list is selected when its draw is below mutation_rate,
\* and what an operator returns for it is put at its place in the list;
\* nodes[0] becomes the root.  An outcome tells how many nodes were
\* selected, and when it was one alone, its index in the list and what was
\* put there.  When several were, what is put at the places after the first
\* is referred to by nothing after the call, and is left out of the heap.
MutateFrom(new_pattern, self) ==
    LET may_mutate == \E u \in RandomDraws : FLt(u, self.mutation_rate)
        may_spare == \E u \in RandomDraws : ~FLt(u, self.mutation_rate)
        nodes == CollectAt(new_pattern.heap, new_pattern.at)
        applicable_ops(node) ==
            {self.operators[k] : k \in {j \in DOMAIN self.operators :
                                           can_apply(self.operators[j], node)}}
        AppliedTo(at) ==
            UNION {ApplyAt(new_pattern.heap, op, at) :
                       op \in applicable_ops(Load(new_pattern.heap, at))}
        Outcome(heap, at, selected, chosen) ==
            [heap |-> heap, at |-> at, selected |-> selected, chosen |-> chosen]
        NoneSelected ==
            IF may_spare
            THEN {Outcome(new_pattern.heap, new_pattern.at, "none", <<>>)}
            ELSE {}
        OneSelected ==
            IF may_mutate /\ (may_spare \/ Len(nodes) = 1)
            THEN UNION {{Outcome(applied.heap,
                                 IF i = 1 THEN applied.at ELSE new_pattern.at, "one",
                                 <<[index |-> i,
                                    replacement |-> Load(applied.heap, applied.at)]>>) :
                             applied \in AppliedTo(nodes[i])} : i \in DOMAIN nodes}
            ELSE {}
        SeveralSelected ==
            (IF may_mutate /\ Len(nodes) >= 2
             THEN {Outcome(applied.heap, applied.at, "several", <<>>) :
                       applied \in AppliedTo(nodes[1])}
             ELSE {})
            \cup (IF may_mutate /\ may_spare /\ Len(nodes) >= 3
                  THEN {Outcome(new_pattern.heap, new_pattern.at, "several", <<>>)}
                  ELSE {})
    IN  NoneSelected \cup OneSelected \cup SeveralSelected

\* mutate with a copy of the root object alone in the place of the clone
MutateCopyAt(heap, self, at) == MutateFrom(CopyAt(heap, at), self)

\* mutate(pattern) for the pattern whose root is at an address: the heaps it
\* can leave, each with the address of the root of the pattern returned
MutateAt(heap, self, at) == MutateFrom(CloneAt(heap, at), self)

\* ------------------------------------------------------------------------
\* Pattern analysis (patterns/analysis.py)
\* ------------------------------------------------------------------------

\* the keys of domain_patterns, in the order of the dict
DomainKinds ==
    <<"email", "url", "phone", "date_iso", "date_us", "time", "ipv4",
      "hex_color", "uuid">>

\* the sources of the domain regexes
DomainSources ==
    [ email |->
        <<"^", "[", "a", "-", "z", "A", "-", "Z", "0", "-", "9", ".", "_",
        "%", "+", "-", "]", "+", "@", "[", "a", "-", "z", "A", "-", "Z", "0",
        "-", "9", ".", "-", "]", "+", "\\", ".", "[", "a", "-", "z", "A",
        "-", "Z", "]", "{", "2", ",", "}", "$">>,
      url |->
        <<"^", "h", "t", "t", "p", "s", "?", ":", "/", "/", "[", "a", "-",
        "z", "A", "-", "Z", "0", "-", "9", ".", "-", "]", "+", "(", "?", ":",
        "\\", ".", "[", "a", "-", "z", "A", "-", "Z", "]", "{", "2", ",",
        "}", ")", "?", "(", "?", ":", "/", ".", "*", ")", "?", "$">>,
      phone |->
        <<"^", "\\", "+", "?", "[", "\\", "d", "\\", "s", "\\", "-", "\\",
        "(", "\\", ")", "]", "{", "7", ",", "}", "$">>,
      date_iso |->
        <<"^", "\\", "d", "{", "4", "}", "-", "\\", "d", "{", "2", "}", "-",
        "\\", "d", "{", "2", "}", "$">>,
      date_us |->
        <<"^", "\\", "d", "{", "1", ",", "2", "}", "/", "\\", "d", "{", "1",
        ",", "2", "}", "/", "\\", "d", "{", "4", "}", "$">>,
      time |->
        <<"^", "\\", "d", "{", "1", ",", "2", "}", ":", "\\", "d", "{", "2",
        "}", "(", "?", ":", ":", "\\", "d", "{", "2", "}", ")", "?", "(",
        "?", ":", "\\", "s", "?", "[", "A", "a", "P", "p", "]", "[", "M",
        "m", "]", ")", "?", "$">>,
      ipv4 |->
        <<"^", "\\", "d", "{", "1", ",", "3", "}", "\\", ".", "\\", "d", "{",
        "1", ",", "3", "}", "\\", ".", "\\", "d", "{", "1", ",", "3", "}",
        "\\", ".", "\\", "d", "{", "1", ",", "3", "}", "$">>,
      hex_color |->
        <<"^", "#", "[", "0", "-", "9", "a", "-", "f", "A", "-", "F", "]",
        "{", "6", "}", "$">>,
      uuid |->
        <<"^", "[", "0", "-", "9", "a", "-", "f", "A", "-", "F", "]", "{",
        "8", "}", "-", "[", "0", "-", "9", "a", "-", "f", "A", "-", "F", "]",
        "{", "4", "}", "-", "[", "0", "-", "9", "a", "-", "f", "A", "-", "F",
        "]", "{", "4", "}", "-", "[", "0", "-", "9", "a", "-", "f", "A", "-",
        "F", "]", "{", "4", "}", "-", "[", "0", "-", "9", "a", "-", "f", "A",
        "-", "F", "]", "{", "1", "2", "}", "$">> ]

\* PatternAnalyzer(): domain_patterns holds the compiled regexes
PatternAnalyzer ==
    [domain_patterns |->
        [kind \in DOMAIN DomainSources |-> re_compile(DomainSources[kind]).node]]

\* PatternAnalysis(...); common_length is an Optional[int]
PatternAnalysis(common_length, length_range, character_sets, common_prefixes, common_suffixes, pattern_type, detected_structure, repetitive_segments) ==
    [common_length |-> common_length,
     length_range |-> length_range,
     character_sets |-> character_sets,
     common_prefixes |-> common_prefixes,
     common_suffixes |-> common_suffixes,
     pattern_type |-> pattern_type,
     detected_structure |-> detected_structure,
     repetitive_segments |-> repetitive_segments]

\* [len(ex) for ex in examples]
Lengths(examples) == [i \in DOMAIN examples |-> Len(examples[i])]

\* min(lengths), max(lengths)
MinLen(lengths) == CHOOSE n \in {lengths[i] : i \in DOMAIN lengths} : \A i \in DOMAIN lengths : n <= lengths[i]

MaxLen(lengths) == MaxOf({lengths[i] : i \in DOMAIN lengths})

\* ''.join(examples)
AllChars(examples) == Joined(examples)

\* the first kind of the registry whose regex matches every example, "" if
\* there is none
RECURSIVE FirstDomain(_, _, _)
FirstDomain(self, examples, i) ==
    IF i > Len(DomainKinds) THEN ""
    ELSE IF \A j \in DOMAIN examples :
                match(self.domain_patterns[DomainKinds[i]], examples[j])
    THEN DomainKinds[i]
    ELSE FirstDomain(self, examples, i + 1)

\* the character composition of all_chars
Composition(all_chars) ==
    LET All(chars) == \A i \in DOMAIN all_chars : all_chars[i] \in chars
    IN  IF All(DigitChars) THEN "digits"
        ELSE IF All(LowerChars \cup UpperChars) THEN "letters"
        ELSE IF All(LowerChars \cup UpperChars \cup DigitChars) THEN "alphanumeric"
        ELSE IF All(LowerChars \cup UpperChars \cup DigitChars \cup {"-", "_", "."})
        THEN "identifier"
        ELSE "mixed"

_detect_pattern_type(self, examples) ==
    LET Detected(kind) == IF kind # "" THEN kind ELSE Composition(AllChars(examples))
    IN  Detected(FirstDomain(self, examples, 1))

\* set(lengths), in the order its iteration gives: CPython's table of eight
\* slots, filled in the order of the list (up to four distinct members); a
\* table is a function of the slots, -1 where a slot is free
RECURSIVE SetSlot(_, _, _, _)
SetSlot(table, key, i, perturb) ==
    IF table[i] \in {-1, key} THEN i
    ELSE SetSlot(table, key, (i * 5 + 1 + (perturb \div 32)) % 8, perturb \div 32)

RECURSIVE SetTable(_, _)
SetTable(table, keys) ==
    IF keys = <<>> THEN table
    ELSE SetTable([table EXCEPT ![SetSlot(table, Head(keys), Head(keys) % 8, Head(keys))]
                                    = Head(keys)],
                  Tail(keys))

SetOrder(keys) ==
    LET Members(table) == SelectSeq([i \in 1..8 |-> table[i - 1]], LAMBDA key : key # -1)
    IN  Members(SetTable([i \in 0..7 |-> -1], keys))

\* lengths.count(n)
CountOf(lengths, n) == Cardinality({i \in DOMAIN lengths : lengths[i] = n})

\* max(keys, key=counts): the first of the keys with the greatest count
FirstMost(keys, counts) ==
    keys[CHOOSE i \in DOMAIN keys :
            /\ \A j \in DOMAIN keys : counts[keys[j]] <= counts[keys[i]]
            /\ \A j \in 1..(i - 1) : counts[keys[j]] < counts[keys[i]]]

\* the type of one character
CharType(char) ==
    IF char \in DigitChars THEN "digit"
    ELSE IF char \in LowerChars THEN "lower"
    ELSE IF char \in UpperChars THEN "upper"
    ELSE IF char = " " THEN "space"
    ELSE "punct"

\* the keys of Counter(char_types), in the order of their first occurrence
RECURSIVE FirstOccurrences(_, _)
FirstOccurrences(char_types, seen) ==
    IF char_types = <<>> THEN <<>>
    ELSE IF Head(char_types) \in seen THEN FirstOccurrences(Tail(char_types), seen)
    ELSE <<Head(char_types)>>
         \o FirstOccurrences(Tail(char_types), seen \cup {Head(char_types)})

\* Counter(char_types).most_common(1)[0][0]
MostCommon(char_types) ==
    FirstMost(FirstOccurrences(char_types, {}),
              [type \in {char_types[i] : i \in DOMAIN char_types} |->
                  CountOf(char_types, type)])

\* the types of the characters the examples have at pos
CharTypesAt(examples, pos) ==
    LET There == SelectSeq(examples, LAMBDA example : pos < Len(example))
    IN  [i \in DOMAIN There |-> CharType(There[i][pos + 1])]

RECURSIVE StructureFrom(_, _, _)
StructureFrom(examples, pos, target_length) ==
    IF pos >= target_length THEN <<>>
    ELSE (IF CharTypesAt(examples, pos) # <<>>
          THEN <<MostCommon(CharTypesAt(examples, pos))>> ELSE <<>>)
         \o StructureFrom(examples, pos + 1, target_length)

_analyze_structure(examples) ==
    LET lengths == Lengths(examples)
        Counts == [n \in {lengths[i] : i \in DOMAIN lengths} |-> CountOf(lengths, n)]
    IN  IF examples = <<>> THEN <<>>
        ELSE StructureFrom(examples, 0, FirstMost(SetOrder(lengths), Counts))

\* example[start:stop] of a slice within the string
Slice(example, start, stop) == SubSeq(example, start + 1, stop)

startswith(example, prefix) ==
    Len(prefix) <= Len(example) /\ Slice(example, 0, Len(prefix)) = prefix

endswith(example, suffix) ==
    /\ Len(suffix) <= Len(example)
    /\ Slice(example, Len(example) - Len(suffix), Len(example)) = suffix

RECURSIVE PrefixesFrom(_, _, _)
PrefixesFrom(examples, i, min_len) ==
    IF i > min_len THEN <<>>
    ELSE IF \A j \in DOMAIN examples : startswith(examples[j], Slice(examples[1], 0, i))
    THEN <<Slice(examples[1], 0, i)>> \o PrefixesFrom(examples, i + 1, min_len)
    ELSE <<>>

_find_common_prefixes(examples) ==
    IF examples = <<>> THEN <<>>
    ELSE PrefixesFrom(examples, 1, MinLen(Lengths(examples)))

RECURSIVE SuffixesFrom(_, _, _)
SuffixesFrom(examples, i, min_len) ==
    LET suffix == Slice(examples[1], Len(examples[1]) - i, Len(examples[1]))
    IN  IF i > min_len THEN <<>>
        ELSE IF \A j \in DOMAIN examples : endswith(examples[j], suffix)
        THEN <<suffix>> \o SuffixesFrom(examples, i + 1, min_len)
        ELSE <<>>

_find_common_suffixes(examples) ==
    IF examples = <<>> THEN <<>>
    ELSE SuffixesFrom(examples, 1, MinLen(Lengths(examples)))

\* how often the segment of this length at start follows itself from pos on
RECURSIVE Repetitions(_, _, _, _)
Repetitions(example, start, length, pos) ==
    IF /\ pos + length <= Len(example)
       /\ Slice(example, pos, pos + length) = Slice(example, start, start + length)
    THEN 1 + Repetitions(example, start, length, pos + length)
    ELSE 0

\* the segments of one example, in the order of the two loops
SegmentsIn(example) ==
    LET LengthsAt(start) ==
            [k \in 1..(Min(6, Len(example) - start + 1) - 2) |-> <<start, k + 1>>]
        repeated ==
            SelectSeq(Joined([i \in 1..Len(example) |-> LengthsAt(i - 1)]),
                      LAMBDA at : Repetitions(example, at[1], at[2], at[1]) > 1)
    IN  [i \in DOMAIN repeated |->
            <<Slice(example, repeated[i][1], repeated[i][1] + repeated[i][2]),
              repeated[i][1],
              repeated[i][1] + repeated[i][2]
                * Repetitions(example, repeated[i][1], repeated[i][2], repeated[i][1])>>]

SegmentsOf(examples) == Joined([i \in DOMAIN examples |-> SegmentsIn(examples[i])])

_find_repetitive_segments(examples) ==
    SegmentsOf(SubSeq(examples, 1, Min(3, Len(examples))))

\* the characters the examples have at each position
CharacterSets(examples, max_len) ==
    [i \in 0..(max_len - 1) |->
        {examples[j][i + 1] : j \in {k \in DOMAIN examples : i < Len(examples[k])}}]

analyze_examples(self, examples) ==
    LET lengths == Lengths(examples)
    IN  IF examples = <<>>
        THEN PatternAnalysis(<<>>, <<0, 0>>, <<>>, <<>>, <<>>, "unknown", <<>>, <<>>)
        ELSE PatternAnalysis(
                IF \A i \in DOMAIN lengths : lengths[i] = lengths[1]
                THEN <<lengths[1]>> ELSE <<>>,
                <<MinLen(lengths), MaxLen(lengths)>>,
                CharacterSets(examples, MaxLen(lengths)),
                _find_common_prefixes(examples),
                _find_common_suffixes(examples),
                _detect_pattern_type(self, examples),
                _analyze_structure(examples),
                _find_repetitive_segments(examples))

\* PatternAST.from_string(pattern): the whole string becomes one literal
from_string(pattern) == PatternAST(LiteralNode(pattern))

\* domain_templates of _generate_domain_pattern
domain_templates ==
    [ email |->
        <<"[", "a", "-", "z", "A", "-", "Z", "0", "-", "9", ".", "_", "%",
        "+", "-", "]", "+", "@", "[", "a", "-", "z", "A", "-", "Z", "0", "-",
        "9", ".", "-", "]", "+", "\\", ".", "[", "a", "-", "z", "A", "-",
        "Z", "]", "{", "2", ",", "}">>,
      url |->
        <<"h", "t", "t", "p", "s", "?", ":", "/", "/", "[", "a", "-", "z",
        "A", "-", "Z", "0", "-", "9", ".", "-", "]", "+", "(", "?", ":",
        "\\", ".", "[", "a", "-", "z", "A", "-", "Z", "]", "{", "2", ",",
        "}", ")", "?", "(", "?", ":", "/", ".", "*", ")", "?">>,
      phone |->
        <<"\\", "+", "?", "[", "\\", "d", "\\", "s", "\\", "-", "\\", "(",
        "\\", ")", "]", "+">>,
      date_iso |->
        <<"\\", "d", "{", "4", "}", "-", "\\", "d", "{", "2", "}", "-", "\\",
        "d", "{", "2", "}">>,
      date_us |->
        <<"\\", "d", "{", "1", ",", "2", "}", "/", "\\", "d", "{", "1", ",",
        "2", "}", "/", "\\", "d", "{", "4", "}">>,
      time |->
        <<"\\", "d", "{", "1", ",", "2", "}", ":", "\\", "d", "{", "2", "}",
        "(", "?", ":", ":", "\\", "d", "{", "2", "}", ")", "?", "(", "?",
        ":", "\\", "s", "?", "[", "A", "a", "P", "p", "]", "[", "M", "m",
        "]", ")", "?">>,
      ipv4 |->
        <<"\\", "d", "{", "1", ",", "3", "}", "\\", ".", "\\", "d", "{", "1",
        ",", "3", "}", "\\", ".", "\\", "d", "{", "1", ",", "3", "}", "\\",
        ".", "\\", "d", "{", "1", ",", "3", "}">>,
      hex_color |->
        <<"#", "[", "0", "-", "9", "a", "-", "f", "A", "-", "F", "]", "{",
        "6", "}">>,
      uuid |->
        <<"[", "0", "-", "9", "a", "-", "f", "A", "-", "F", "]", "{", "8",
        "}", "-", "[", "0", "-", "9", "a", "-", "f", "A", "-", "F", "]", "{",
        "4", "}", "-", "[", "0", "-", "9", "a", "-", "f", "A", "-", "F", "]",
        "{", "4", "}", "-", "[", "0", "-", "9", "a", "-", "f", "A", "-", "F",
        "]", "{", "4", "}", "-", "[", "0", "-", "9", "a", "-", "f", "A", "-",
        "F", "]", "{", "1", "2", "}">>,
      digits |->
        <<"\\", "d", "+">>,
      letters |->
        <<"[", "a", "-", "z", "A", "-", "Z", "]", "+">>,
      alphanumeric |->
        <<"[", "a", "-", "z", "A", "-", "Z", "0", "-", "9", "]", "+">> ]

_generate_domain_pattern(pattern_type) ==
    from_string(IF pattern_type \in DOMAIN domain_templates
                THEN domain_templates[pattern_type] ELSE <<".", "*">>)

\* the character class, or the wildcard, of a character type
TypeClass(char_type) ==
    IF char_type = "digit" THEN CharacterClassNode(DigitChars, FALSE, <<>>)
    ELSE IF char_type = "lower" THEN CharacterClassNode(LowerChars, FALSE, <<>>)
    ELSE IF char_type = "upper" THEN CharacterClassNode(UpperChars, FALSE, <<>>)
    ELSE IF char_type = "alpha"
    THEN CharacterClassNode(LowerChars \cup UpperChars, FALSE, <<>>)
    ELSE WildcardNode

\* a common_length that is neither None nor 0
HasCommonLength(analysis) ==
    analysis.common_length # <<>> /\ analysis.common_length[1] # 0

_generate_structure_based_pattern(analysis) ==
    LET structure == analysis.detected_structure
        types == {structure[i] : i \in DOMAIN structure}
        common_length == analysis.common_length[1]
        Uniform(char_class) ==
            IF HasCommonLength(analysis)
            THEN IF common_length = 1 THEN PatternAST(char_class)
                 ELSE PatternAST(QuantifierNode(char_class, PyInt(common_length),
                                                PyInt(common_length), FALSE))
            ELSE PatternAST(QuantifierNode(char_class, PyInt(analysis.length_range[1]),
                                           PyInt(analysis.length_range[2]), FALSE))
        Mixed(base_class) ==
            IF HasCommonLength(analysis)
            THEN IF common_length = 1 THEN PatternAST(base_class)
                 ELSE PatternAST(QuantifierNode(base_class, PyInt(1),
                                                PyInt(common_length), FALSE))
            ELSE PatternAST(QuantifierNode(base_class, PyInt(1), None, FALSE))
    IN  IF structure = <<>> THEN PatternAST(LiteralNode(<<>>))
        ELSE IF Cardinality(types) = 1 THEN Uniform(TypeClass(structure[1]))
        ELSE Mixed(TypeClass(MostCommon(structure)))

generate_initial_pattern(self, analysis) ==
    IF analysis.pattern_type \in DOMAIN self.domain_patterns
    THEN _generate_domain_pattern(analysis.pattern_type)
    ELSE _generate_structure_based_pattern(analysis)

\* ------------------------------------------------------------------------
\* Simulated annealing (algorithms/simulated_annealing.py)
\* ------------------------------------------------------------------------

\* An Optional value is a sequence: <<>> is None, <<v>> is v.
Some(v) == <<v>>

SAConfig(initial_temperature, final_temperature, max_iterations, max_no_improvement, cooling_schedule, mutation_rate, max_complexity, random_seed, timeout_seconds) ==
    [initial_temperature |-> initial_temperature,
     final_temperature |-> final_temperature,
     max_iterations |-> max_iterations,
     max_no_improvement |-> max_no_improvement,
     cooling_schedule |-> cooling_schedule,
     mutation_rate |-> mutation_rate,
     max_complexity |-> max_complexity,
     random_seed |-> random_seed,
     timeout_seconds |-> timeout_seconds]

TemperatureScheduler(config) ==
    [config |-> config,
     initial_temp |-> config.initial_temperature,
     final_temp |-> config.final_temperature,
     max_iterations |-> config.max_iterations,
     last_improvement_iteration |-> 0,
     stagnation_threshold |-> Max(50, config.max_iterations \div 20)]

\* what a call that can raise gives back
Returns(value) == [raised |-> "", value |-> value]

Raises(exception) == [raised |-> exception, value |-> F0]

\* progress = iteration / self.max_iterations
_linear_cooling(self, iteration) ==
    FMul(self.initial_temp,
         FSub(F1, FDiv(FInt(iteration), FInt(self.max_iterations))))

\* 0.001 ** (1.0 / n) for n = 1 .. 4, as the C library's pow returns it
PowThousandth ==
    << Flt(<<10748, 9699, 2359, 131>>, -62),
       Flt(<<14962, 7488, 17265, 129>>, -57),
       Flt(<<6555, 13107, 26214, 204>>, -56),
       Flt(<<7999, 18157, 3139, 182>>, -55) >>

\* (final_temp / initial_temp) ** (1.0 / max_iterations), for the one ratio
\* the configurations here have: 0.01 / 10.0 = 0.001
CoolingRate(ratio, max_iterations) ==
    CASE ratio = Flt(<<10748, 9699, 2359, 131>>, -62) -> PowThousandth[max_iterations]

\* 0.001 ** (1.0 / n) to the powers 51, 52 and 53, for n = 1 .. 4, as the C
\* library's pow returns them
LatePowers ==
    <<
       << Flt(<<20051, 26344, 17200, 214>>, -561),
          Flt(<<11357, 2335, 22070, 219>>, -571),
          Flt(<<18970, 11828, 30988, 224>>, -581) >>,
       << Flt(<<267, 1597, 11361, 234>>, -307),
          Flt(<<26540, 18641, 4659, 237>>, -312),
          Flt(<<28583, 26276, 31818, 239>>, -317) >>,
       << Flt(<<5007, 24097, 18413, 191>>, -222),
          Flt(<<4006, 12724, 8177, 153>>, -225),
          Flt(<<12966, 7251, 6530, 245>>, -229) >>,
       << Flt(<<14710, 19297, 30611, 244>>, -180),
          Flt(<<11674, 25258, 7358, 174>>, -182),
          Flt(<<30857, 19394, 28048, 247>>, -185) >> >>

\* cooling_rate ** iteration: the exact power rounded once for the first
\* iterations, the table for those past the stagnation threshold
CoolingPower(cooling_rate, max_iterations, iteration) ==
    IF iteration <= 50 THEN FPowInt(cooling_rate, iteration)
    ELSE LatePowers[max_iterations][iteration - 50]

_exponential_cooling(self, iteration) ==
    IF FIsZero(self.initial_temp) THEN Raises("ZeroDivisionError")
    ELSE Returns(FMul(self.initial_temp,
                      CoolingPower(CoolingRate(FDiv(self.final_temp, self.initial_temp),
                                               self.max_iterations),
                                   self.max_iterations, iteration)))

\* math.log(k) for k = 2 .. 5
LogTable ==
    << Flt(<<14831, 32244, 14603, 177>>, -53),
       Flt(<<779, 30042, 20393, 140>>, -52),
       Flt(<<14831, 32244, 14603, 177>>, -52),
       Flt(<<3379, 28635, 263, 206>>, -52) >>

_logarithmic_cooling(self, iteration) ==
    IF iteration = 0 THEN self.initial_temp
    ELSE FDiv(self.initial_temp, LogTable[iteration])

\* 1.5 + (stagnation_time - self.stagnation_threshold) / 100
slowdown_factor(self, stagnation_time) ==
    FAdd(Flt(<<0, 0, 0, 192>>, -52),
         FDiv(FInt(stagnation_time - self.stagnation_threshold),
              Flt(<<0, 0, 0, 200>>, -46)))

\* base_temp *= slowdown_factor, if the stagnation is over the threshold
Slowed(self, stagnation_time, base_temp) ==
    IF stagnation_time > self.stagnation_threshold
    THEN FMul(base_temp, slowdown_factor(self, stagnation_time)) ELSE base_temp

\* Adapted without the max with final_temp
AdaptedUnbounded(self, stagnation_time, base) ==
    IF base.raised # "" THEN base
    ELSE Returns(Slowed(self, stagnation_time, base.value))

Adapted(self, stagnation_time, base) ==
    IF base.raised # "" THEN base
    ELSE Returns(FMax(Slowed(self, stagnation_time, base.value), self.final_temp))

_adaptive_cooling(self, iteration, last_improvement_iter) ==
    Adapted(self, iteration - last_improvement_iter, _exponential_cooling(self, iteration))

CoolingSchedules == {"linear", "exponential", "logarithmic", "adaptive"}

get_temperature(self, iteration, last_improvement_iter) ==
    IF self.config.cooling_schedule = "linear"
    THEN Returns(_linear_cooling(self, iteration))
    ELSE IF self.config.cooling_schedule = "logarithmic"
    THEN Returns(_logarithmic_cooling(self, iteration))
    ELSE IF self.config.cooling_schedule = "adaptive"
    THEN _adaptive_cooling(self, iteration, last_improvement_iter)
    ELSE _exponential_cooling(self, iteration)

\* ---- the optimizer -------------------------------------------------------

\* SimulatedAnnealing(config)
SimulatedAnnealing(config) ==
    [config |-> config,
     mutator |-> PatternMutator(config.mutation_rate),
     scheduler |-> TemperatureScheduler(config)]

\* what random.randint(0, 3) and random.randint(min_count, min_count + 5)
\* are let to return: the least and the greatest value
SampledCounts == {0, 3}

SampledSpans == {0, 5}

\* _generate_random_node(complexity_budget), under every sampled draw
RECURSIVE _generate_random_node(_)
_generate_random_node(complexity_budget) ==
    LET Quantified(children) ==
            UNION { { QuantifierNode(child, PyInt(min_count), max_count, FALSE) :
                          child \in children,
                          max_count \in {None} \cup {PyInt(min_count + span) :
                                                        span \in SampledSpans} } :
                    min_count \in SampledCounts }
        Grouped(children) ==
            { GroupNode(child, capturing, <<>>) : child \in children, capturing \in BOOLEAN }
        Alternated(max_alts) ==
            UNION { { AlternationNode(alternatives) :
                          alternatives \in [1..num_alts ->
                              _generate_random_node(Max(1, (complexity_budget - 1) \div num_alts))] } :
                    num_alts \in 2..max_alts }
    IN  IF complexity_budget <= 1
        THEN { LiteralNode(<<char>>) : char \in Sampled(AsciiLetters \cup DigitChars) }
             \cup { CharacterClassNode(chars, FALSE, <<>>) :
                        chars \in UNION {SampledSubsets(LowerChars, k) : k \in {2, 5}} }
             \cup { WildcardNode }
        ELSE Quantified(_generate_random_node(complexity_budget - 2))
             \cup Grouped(_generate_random_node(complexity_budget - 2))
             \cup Alternated(Max(2, Min(4, complexity_budget \div 2)))
             \cup _generate_random_node(1)

\* the parameters generate_random_pattern declares, besides self
GenerateRandomPatternParameters == {"max_complexity"}

\* generate_random_pattern(**kwargs): a keyword the signature does not
\* declare is a TypeError at the call
generate_random_pattern(self, kwargs) ==
    IF ~(DOMAIN kwargs \subseteq GenerateRandomPatternParameters)
    THEN { PatternRaises("TypeError") }
    ELSE { Pattern(PatternAST(root)) : root \in _generate_random_node(kwargs.max_complexity) }

\* `config.timeout_seconds and elapsed > config.timeout_seconds`: None and
\* 0.0 are false
TimedOut(config, elapsed) ==
    /\ config.timeout_seconds # <<>>
    /\ ~FIsZero(config.timeout_seconds[1])
    /\ FGt(elapsed, config.timeout_seconds[1])

\* math.exp(x) = 1.0 for x <= 0: exactly when x >= -2^-54
ExpIsOne(x) == FGe(x, FNeg(Flt(<<0, 0, 0, 128>>, -106)))

\* math.exp(x) = 0.0: below the logarithm of the least subnormal,
\* x < -745.1332191019412
ExpIsZero(x) == FLt(x, FNeg(Flt(<<12370, 10842, 9283, 186>>, -43)))

\* u < math.exp(x) for x <= 0 and a draw u of RandomDraws: exp(x) is 1.0, or
\* 0.0, or strictly between, where only the draw 0.0 is below it
DrawBelowExp(u, x) ==
    IF ExpIsZero(x) THEN FALSE
    ELSE IF ExpIsOne(x) THEN TRUE
    ELSE FIsZero(u)

\* _should_accept with >= for >: an equal neighbor is accepted outright
ShouldAcceptEqual(current_score, neighbor_score, temperature, draw) ==
    IF FGe(neighbor_score, current_score) THEN TRUE
    ELSE IF FLe(temperature, F0) THEN FALSE
    ELSE DrawBelowExp(draw[1], FDiv(FSub(neighbor_score, current_score), temperature))

\* whether _should_accept reaches random.random()
DrawsRandom(current_score, neighbor_score, temperature) ==
    ~FGt(neighbor_score, current_score) /\ ~FLe(temperature, F0)

\* _should_accept(current_score, neighbor_score, temperature), draw being
\* what random.random() returns when it is reached
_should_accept(current_score, neighbor_score, temperature, draw) ==
    IF FGt(neighbor_score, current_score) THEN TRUE
    ELSE IF FLe(temperature, F0) THEN FALSE
    ELSE DrawBelowExp(draw[1], FDiv(FSub(neighbor_score, current_score), temperature))

\* pattern.clone() of a PatternAST
clone_pattern(pattern) == PatternAST(clone(pattern.root))

\* the last call of _should_accept in a frame, when there was none
NoDecision ==
    [evaluated |-> FALSE, current_score |-> F0, neighbor_score |-> F0,
     temperature |-> F0, draw |-> <<>>, accept |-> FALSE]

\* the locals of optimize when its loop is entered; elapsed is the clock,
\* time.time() - start_time, and iteration is -1 while the name is unbound
Frame(current_pattern, current_fitness, elapsed) ==
    [current_pattern |-> current_pattern,
     current_fitness |-> current_fitness,
     start_fitness |-> current_fitness,
     best_pattern |-> clone_pattern(current_pattern),
     best_fitness |-> current_fitness,
     temperature_history |-> <<>>,
     fitness_history |-> <<>>,
     accepted_moves |-> 0,
     rejected_moves |-> 0,
     last_improvement_iteration |-> 0,
     no_improvement_count |-> 0,
     iteration |-> -1,
     convergence_reason |-> "",
     decision |-> NoDecision,
     elapsed |-> elapsed]

\* TooComplex with the count of iterations without improvement raised too
TooComplexCounted(frame) ==
    [frame EXCEPT !.rejected_moves = @ + 1,
                  !.no_improvement_count = @ + 1,
                  !.fitness_history = Append(@, frame.current_fitness.total_score)]

\* the neighbor is over max_complexity: rejected, and the loop continues
TooComplex(frame) ==
    [frame EXCEPT !.rejected_moves = @ + 1,
                  !.fitness_history = Append(@, frame.current_fitness.total_score)]

\* Accepted without the replacement of the best solution
AcceptedBestKept(frame, iteration, neighbor_pattern, neighbor_fitness) ==
    [frame EXCEPT !.current_pattern = neighbor_pattern,
                  !.current_fitness = neighbor_fitness,
                  !.accepted_moves = @ + 1,
                  !.no_improvement_count =
                      IF FGt(neighbor_fitness.total_score, frame.best_fitness.total_score)
                      THEN 0 ELSE @ + 1]

\* Accepted without the comparison: every accepted neighbor becomes the best
AcceptedAsBest(frame, iteration, neighbor_pattern, neighbor_fitness) ==
    [frame EXCEPT !.current_pattern = neighbor_pattern,
                  !.current_fitness = neighbor_fitness,
                  !.accepted_moves = @ + 1,
                  !.best_pattern = clone_pattern(neighbor_pattern),
                  !.best_fitness = neighbor_fitness,
                  !.last_improvement_iteration = iteration,
                  !.no_improvement_count = 0]

\* the accepted neighbor becomes the current solution, and the best one when
\* its total is strictly greater than the best total
Accepted(frame, iteration, neighbor_pattern, neighbor_fitness) ==
    IF FGt(neighbor_fitness.total_score, frame.best_fitness.total_score)
    THEN [frame EXCEPT !.current_pattern = neighbor_pattern,
                       !.current_fitness = neighbor_fitness,
                       !.accepted_moves = @ + 1,
                       !.best_pattern = clone_pattern(neighbor_pattern),
                       !.best_fitness = neighbor_fitness,
                       !.last_improvement_iteration = iteration,
                       !.no_improvement_count = 0]
    ELSE [frame EXCEPT !.current_pattern = neighbor_pattern,
                       !.current_fitness = neighbor_fitness,
                       !.accepted_moves = @ + 1,
                       !.no_improvement_count = @ + 1]

\* Rejected without the count of iterations without improvement
RejectedUncounted(frame) == [frame EXCEPT !.rejected_moves = @ + 1]

\* the neighbor is rejected
Rejected(frame) ==
    [frame EXCEPT !.rejected_moves = @ + 1,
                  !.no_improvement_count = @ + 1]

\* ConvergenceCheck without the 0.999 threshold on the best total
ConvergenceCheckNoThreshold(config, frame, temperature, positive_examples, negative_examples) ==
    IF frame.no_improvement_count >= config.max_no_improvement THEN "no_improvement"
    ELSE IF /\ frame.best_fitness.positive_matches = Len(positive_examples)
            /\ frame.best_fitness.negative_matches = Len(negative_examples)
    THEN "perfect_solution"
    ELSE IF FLt(temperature, config.final_temperature) THEN "temperature_converged"
    ELSE ""

\* the three checks that end the loop after an iteration; "" when none does
ConvergenceCheck(config, frame, temperature, positive_examples, negative_examples) ==
    IF frame.no_improvement_count >= config.max_no_improvement THEN "no_improvement"
    ELSE IF /\ FGe(frame.best_fitness.total_score, Flt(<<1835, 12845, 24379, 255>>, -53))  \* 0.999
            /\ frame.best_fitness.positive_matches = Len(positive_examples)
            /\ frame.best_fitness.negative_matches = Len(negative_examples)
    THEN "perfect_solution"
    ELSE IF FLt(temperature, config.final_temperature) THEN "temperature_converged"
    ELSE ""

\* the end of the body of the loop: the three checks
Checked(config, moved, temperature, positive_examples, negative_examples) ==
    [moved EXCEPT !.convergence_reason =
                      ConvergenceCheck(config, moved, temperature,
                                       positive_examples, negative_examples)]

\* fitness_history.append(current_fitness.total_score), then the checks
Logged(config, moved, temperature, positive_examples, negative_examples) ==
    Checked(config,
            [moved EXCEPT !.fitness_history = Append(@, moved.current_fitness.total_score)],
            temperature, positive_examples, negative_examples)

\* the body of the loop from the decision on; decision keeps the call of
\* _should_accept and what it returned
Decided(config, frame, iteration, temperature, neighbor_pattern, neighbor_fitness, draw, positive_examples, negative_examples, accept) ==
    Logged(config,
           [(IF accept
             THEN Accepted(frame, iteration, neighbor_pattern, neighbor_fitness)
             ELSE Rejected(frame))
            EXCEPT !.decision =
                [evaluated |-> TRUE,
                 current_score |-> frame.current_fitness.total_score,
                 neighbor_score |-> neighbor_fitness.total_score,
                 temperature |-> temperature,
                 draw |-> draw,
                 accept |-> accept]],
           temperature, positive_examples, negative_examples)

\* an iteration from the evaluation of its neighbor to the end of the body
Evaluated(config, frame, iteration, temperature, neighbor_pattern, neighbor_fitness, draw, positive_examples, negative_examples) ==
    Decided(config, frame, iteration, temperature, neighbor_pattern, neighbor_fitness,
            draw, positive_examples, negative_examples,
            _should_accept(frame.current_fitness.total_score,
                           neighbor_fitness.total_score, temperature, draw))

\* the SAResult that optimize returns; suffixes are the restarts that
\* optimize_with_restarts appends to convergence_reason
SAResult(frame) ==
    [best_pattern |-> frame.best_pattern,
     best_fitness |-> frame.best_fitness,
     iterations |-> frame.iteration + 1,
     time_seconds |-> frame.elapsed,
     temperature_history |-> frame.temperature_history,
     fitness_history |-> frame.fitness_history,
     accepted_moves |-> frame.accepted_moves,
     rejected_moves |-> frame.rejected_moves,
     convergence_reason |-> frame.convergence_reason,
     suffixes |-> <<>>,
     final_temperature |-> IF frame.temperature_history # <<>>
                           THEN frame.temperature_history[Len(frame.temperature_history)]
                           ELSE F0]

\* ---- the random module --------------------------------------------------

\* random.seed(seed): the generator restarts its sequence.  tape is what the
\* optimizer has drawn since, one entry for each call of mutate; replay is
\* the tape of an earlier run from the same seed, and synced tells whether
\* this run has so far consumed the sequence as that run did
Seeded(seed, replay) == [seed |-> seed, tape |-> <<>>, replay |-> replay, synced |-> TRUE]

\* the generator when random.seed was never called: nothing is known of it
Unseeded == [seed |-> <<>>, tape |-> <<>>, replay |-> <<>>, synced |-> FALSE]

\* whether the draws of the next mutate are those of the earlier run: the
\* same position in the sequence and the same nodes to draw for
Forced(random, pattern) ==
    /\ random.synced
    /\ Len(random.tape) < Len(random.replay)
    /\ random.replay[Len(random.tape) + 1].pattern = pattern

\* what mutate can make of the pattern with the generator in this state
Neighbors(random, mutator, pattern) ==
    IF Forced(random, pattern) THEN { random.replay[Len(random.tape) + 1].outcome }
    ELSE mutate(mutator, pattern)

\* what random.random() can return in _should_accept: <<>> when it is not
\* called, the earlier run's draw when the sequence is the same
AcceptDraws(random, pattern, draws_random) ==
    IF ~draws_random THEN { <<>> }
    ELSE IF Forced(random, pattern) /\ random.replay[Len(random.tape) + 1].draw # <<>>
    THEN { random.replay[Len(random.tape) + 1].draw }
    ELSE { <<u>> : u \in RandomDraws }

\* the generator after an iteration drew for mutate and for _should_accept
Drawn(random, pattern, outcome, draw) ==
    IF random.seed = <<>> THEN random
    ELSE [random EXCEPT
            !.tape = Append(@, [pattern |-> pattern, outcome |-> outcome, draw |-> draw]),
            !.synced = /\ Forced(random, pattern)
                       /\ (random.replay[Len(random.tape) + 1].draw = <<>>) = (draw = <<>>)]

\* ---- the clock ----------------------------------------------------------

\* how long each test string of one call of score can take in a run of the
\* optimizer: no measurable time, or 0.6 s
DriverDurations == {F0, Flt(<<13107, 26214, 19660, 153>>, -53)}

\* the durations of one call of score on n test strings: the same for each
\* string; SimpleFitnessScorer has no performance pass to time
DurationProfiles(fitness_scorer, n) ==
    IF fitness_scorer.class = "SimpleFitnessScorer" THEN { [k \in 1..n |-> F0] }
    ELSE { [k \in 1..n |-> d] : d \in DriverDurations }

\* what a call of score adds to the clock: the time of its performance pass
ScoreTime(fitness_scorer, scored, durations) ==
    IF fitness_scorer.class = "SimpleFitnessScorer" \/ scored.compilation_error # ""
    THEN F0
    ELSE PerformanceLoop(fitness_scorer.timeout_seconds, durations, 1,
                         Min(100, Len(durations)), F0).execution_time

\* ------------------------------------------------------------------------
\* State.  Each operation of the package is a call whose frame is a record;
\* a specification that does not run an operation leaves its frame at None.
\* ------------------------------------------------------------------------

VARIABLES
    pc,         \* where the call in progress stands
    scorer,     \* the FitnessScorer object handed to the call
    call,       \* the arguments of the call in progress
    fitness,    \* what score returned (or the exception that left it)
    sa,         \* the SimulatedAnnealing object
    rng,        \* the generator of the random module
    run,        \* the frame of optimize, or the exception that left it
    result,     \* what optimize returned
    restarts,   \* the frame of optimize_with_restarts
    first       \* what the first of two runs returned

vars == <<pc, scorer, call, fitness, sa, rng, run, result, restarts, first>>

\* ------------------------------------------------------------------------
\* Specification of the scorer: a scorer is constructed, then score is called
\* once on a pattern and two example lists.  The clock is the environment's:
\* durations[k] is the wall-clock time that the performance pass spends in
\* fullmatch and search on its k-th test string, the clock reads 0 when the
\* pass starts, and nothing else takes time.
\* ------------------------------------------------------------------------

\* MultiCriteriaScorer(mode=..., timeout_seconds=...): 1.0 is the default and
\* what cli/main.py passes; 0.0 makes timeout_seconds / 2 a zero divisor
ScorerTimeouts == {F1, F0}

\* how long one test string can take: no measurable time, 0.6 s, 2 s
MatchDurations == {F0, Flt(<<13107, 26214, 19660, 153>>, -53), Flt(<<0, 0, 0, 128>>, -51)}

ScorePatterns ==
    { LiteralNode(<<>>),
      LiteralNode(<<"a", "b">>),
      QuantifierNode(LiteralNode(<<"a">>), PyInt(1), None, FALSE),
      QuantifierNode(LiteralNode(<<"a">>), MAXREPEAT, MAXREPEAT, FALSE),
      QuantifierNode(LiteralNode(<<"a">>), PyInt(3), PyInt(1), FALSE),
      CharacterClassNode({}, FALSE, << <<"c", "a">> >>),
      GroupNode(QuantifierNode(WildcardNode, PyInt(0), PyInt(1), TRUE), TRUE, <<>>),
      AlternationNode(<<>>) }

ScorePositives == { <<>>, << <<"a">> >>, << <<"a", "b">>, <<"a">> >> }

ScoreNegatives == { <<>>, << <<"b">> >> }

\* every assignment of a duration to each of n test strings
DurationLists(n) == [1..n -> MatchDurations]

InitScore ==
    /\ pc = "idle"
    /\ scorer \in {MultiCriteriaScorer(mode, t) : mode \in ScoringModes, t \in ScorerTimeouts}
    /\ call = None
    /\ fitness = None
    /\ sa = None
    /\ rng = None
    /\ run = None
    /\ result = None
    /\ restarts = None
    /\ first = None

\* fitness_scorer.score(pattern, positive_examples, negative_examples)
Score ==
    /\ pc = "idle"
    /\ \E root \in ScorePatterns, positive_examples \in ScorePositives,
          negative_examples \in ScoreNegatives :
         \E durations \in DurationLists(Len(positive_examples) + Len(negative_examples)) :
            LET Return(scored) ==
                    /\ fitness' = scored
                    /\ pc' = IF scored.raised = "" THEN "returned" ELSE "raised"
            IN  /\ Return(score(scorer, PatternAST(root), positive_examples,
                                negative_examples, durations))
                /\ call' = [pattern |-> PatternAST(root),
                            positive_examples |-> positive_examples,
                            negative_examples |-> negative_examples,
                            durations |-> durations]
    /\ UNCHANGED <<scorer, sa, rng, run, result, restarts, first>>

NextScore == Score

SpecScore == InitScore /\ [][NextScore]_vars

\* ------------------------------------------------------------------------
\* Specification of the optimizer: a SimulatedAnnealing object is
\* constructed from a configuration, then optimize or optimize_with_restarts
\* is called once.  An iteration of the loop of optimize is one step.
\* ------------------------------------------------------------------------

\* max_iterations of the configurations
MaxIterations == 2

\* SAConfig() with max_iterations and the fields named in the comments
\* changed: 10.0, 0.01, 150, adaptive, 0.15, 50, no seed, no timeout
DefaultConfig ==
    SAConfig(Flt(<<0, 0, 0, 160>>, -49), Flt(<<5243, 3932, 27525, 163>>, -59),
             MaxIterations, 150, "adaptive",
             Flt(<<13107, 26214, 19660, 153>>, -55), 50, <<>>, <<>>)

Scenario(entry, config, fitness_scorer, positive_examples, negative_examples, initial_pattern, num_restarts) ==
    [entry |-> entry, config |-> config, scorer |-> fitness_scorer,
     positive_examples |-> positive_examples, negative_examples |-> negative_examples,
     initial_pattern |-> initial_pattern, num_restarts |-> num_restarts]

\* the scorer of cli/main.py
CliScorer == MultiCriteriaScorer("balanced", F1)

Scenarios ==
    { \* the defaults, from the literal b
      Scenario("optimize", DefaultConfig, CliScorer,
               << <<"a">> >>, << <<"b">> >>, Some(PatternAST(LiteralNode(<<"b">>))), 0),
      \* the defaults, from the literal a, which matches as the examples ask
      Scenario("optimize", DefaultConfig, CliScorer,
               << <<"a">> >>, << <<"b">> >>, Some(PatternAST(LiteralNode(<<"a">>))), 0),
      \* no positive examples
      Scenario("optimize", DefaultConfig, SimpleFitnessScorer,
               <<>>, << <<"b">> >>, Some(PatternAST(LiteralNode(<<"a">>))), 0),
      \* no initial pattern, as cli/main.py calls it
      Scenario("optimize", DefaultConfig, CliScorer,
               << <<"a">> >>, << <<"b">> >>, <<>>, 0),
      \* restarts, with a seed
      Scenario("optimize_with_restarts", [DefaultConfig EXCEPT !.random_seed = Some(1)],
               CliScorer, << <<"a">> >>, << <<"b">> >>, <<>>, 3),
      \* a seeded run
      Scenario("optimize", [DefaultConfig EXCEPT !.random_seed = Some(1)],
               SimpleFitnessScorer,
               << <<"a">> >>, <<>>, Some(PatternAST(LiteralNode(<<"b">>))), 0),
      \* linear cooling from the temperature 0.0
      Scenario("optimize", [DefaultConfig EXCEPT !.cooling_schedule = "linear",
                                                 !.initial_temperature = F0,
                                                 !.final_temperature = F0],
               SimpleFitnessScorer,
               << <<"a">> >>, << <<"b">> >>, Some(PatternAST(LiteralNode(<<"0">>))), 0),
      \* linear cooling to below the final temperature
      Scenario("optimize", [DefaultConfig EXCEPT !.cooling_schedule = "linear",
                                                 !.final_temperature = Flt(<<0, 0, 0, 160>>, -49)],
               SimpleFitnessScorer,
               << <<"a">> >>, << <<"b">> >>, Some(PatternAST(LiteralNode(<<"0">>))), 0),
      \* max_no_improvement = 1
      Scenario("optimize", [DefaultConfig EXCEPT !.max_no_improvement = 1],
               SimpleFitnessScorer,
               << <<"a">> >>, << <<"b">> >>, Some(PatternAST(LiteralNode(<<"b">>))), 0),
      \* timeout_seconds = 1.0
      Scenario("optimize", [DefaultConfig EXCEPT !.timeout_seconds = Some(F1)],
               CliScorer,
               << <<"a">> >>, << <<"b">> >>, Some(PatternAST(WildcardNode)), 0),
      \* max_iterations = 0
      Scenario("optimize", [DefaultConfig EXCEPT !.max_iterations = 0],
               SimpleFitnessScorer,
               << <<"a">> >>, << <<"b">> >>, Some(PatternAST(LiteralNode(<<"a">>))), 0),
      \* a start that is already perfect
      Scenario("optimize", DefaultConfig, SimpleFitnessScorer,
               << <<"a">> >>, << <<"b">> >>, Some(PatternAST(LiteralNode(<<"a">>))), 0),
      \* max_complexity = 2
      Scenario("optimize", [DefaultConfig EXCEPT !.max_complexity = 2],
               SimpleFitnessScorer,
               << <<"a">> >>, << <<"b">> >>, Some(PatternAST(LiteralNode(<<"b">>))), 0),
      \* logarithmic cooling
      Scenario("optimize", [DefaultConfig EXCEPT !.cooling_schedule = "logarithmic"],
               SimpleFitnessScorer,
               << <<"a">> >>, << <<"b">> >>, Some(PatternAST(WildcardNode)), 0),
      \* exponential cooling from the temperature 0.0
      Scenario("optimize", [DefaultConfig EXCEPT !.cooling_schedule = "exponential",
                                                 !.initial_temperature = F0],
               SimpleFitnessScorer,
               << <<"a">> >>, << <<"b">> >>, Some(PatternAST(LiteralNode(<<"b">>))), 0),
      \* an alternation without alternatives
      Scenario("optimize", DefaultConfig, SimpleFitnessScorer,
               << <<"a">> >>, << <<"b">> >>, Some(PatternAST(AlternationNode(<<>>))), 0),
      \* the literal of no characters, which a quantifier makes a regex that
      \* does not compile
      Scenario("optimize", DefaultConfig, SimpleFitnessScorer,
               << <<"a">> >>, << <<"b">> >>, Some(PatternAST(LiteralNode(<<>>))), 0) }

\* SimulatedAnnealing(config): __init__ seeds the generator when the
\* configuration has a seed
Constructed(scenario, replay) ==
    /\ pc = "idle"
    /\ sa = SimulatedAnnealing(scenario.config)
    /\ rng = IF scenario.config.random_seed # <<>>
             THEN Seeded(scenario.config.random_seed, replay) ELSE Unseeded
    /\ scorer = scenario.scorer
    /\ call = [entry |-> scenario.entry,
               positive_examples |-> scenario.positive_examples,
               negative_examples |-> scenario.negative_examples,
               initial_pattern |-> scenario.initial_pattern,
               num_restarts |-> scenario.num_restarts]
    /\ fitness = None
    /\ run = None
    /\ result = None
    /\ restarts = None

InitSA ==
    /\ \E scenario \in Scenarios : Constructed(scenario, <<>>)
    /\ first = None

\* optimize_with_restarts(positive_examples, negative_examples,
\* fitness_scorer, num_restarts), up to its first call of optimize
OptimizeWithRestarts ==
    /\ pc = "idle"
    /\ call.entry = "optimize_with_restarts"
    /\ restarts' = [best_result |-> <<>>, restart |-> 0, results |-> <<>>, raised |-> ""]
    /\ IF call.num_restarts > 0
       THEN /\ pc' = "calling"
            /\ rng' = IF sa.config.random_seed # <<>>
                      THEN Seeded(Some(sa.config.random_seed[1] + 0), <<>>) ELSE rng
       ELSE /\ pc' = "done"
            /\ rng' = rng
    /\ UNCHANGED <<scorer, call, fitness, sa, run, result, first>>

\* an exception leaves optimize; random is the generator then
Unwind(exception, random) ==
    /\ run' = [raised |-> exception]
    /\ pc' = "raised"
    /\ rng' = random

\* the start pattern is scored: the loop is entered with it as the current
\* and the best solution
Enter(current_pattern, current_fitness, durations) ==
    IF current_fitness.raised # "" THEN Unwind(current_fitness.raised, rng)
    ELSE /\ run' = Frame(current_pattern, current_fitness,
                         ScoreTime(scorer, current_fitness, durations))
         /\ pc' = "loop"
         /\ rng' = rng

\* the start pattern, or the exception of the call that was to make it
Start(outcome) ==
    IF outcome.raised # "" THEN Unwind(outcome.raised, rng)
    ELSE \E durations \in DurationProfiles(scorer, Len(call.positive_examples)
                                                     + Len(call.negative_examples)) :
            Enter(outcome.pattern,
                  scorer_score(scorer, outcome.pattern, call.positive_examples,
                               call.negative_examples, durations),
                  durations)

\* what the start can be: a clone of the initial pattern, or what
\* generate_random_pattern(max_complexity=..., examples=...) returns
Starts(initial_pattern) ==
    IF initial_pattern = <<>>
    THEN generate_random_pattern(
             sa.mutator,
             [max_complexity |-> sa.config.max_complexity \div 2,
              examples |-> call.positive_examples])
    ELSE { Pattern(clone_pattern(initial_pattern[1])) }

\* optimize(positive_examples, negative_examples, fitness_scorer,
\* initial_pattern), up to the loop; optimize_with_restarts passes no
\* initial pattern
Optimize ==
    /\ \/ pc = "idle" /\ call.entry = "optimize"
       \/ pc = "calling"
    /\ \E outcome \in Starts(IF pc = "calling" THEN <<>> ELSE call.initial_pattern) :
          Start(outcome)
    /\ UNCHANGED <<scorer, call, fitness, sa, result, restarts, first>>

\* the iteration ends with this frame: the loop goes on, or is left by break
Goes(frame, random) ==
    /\ run' = frame
    /\ pc' = IF frame.convergence_reason = "" THEN "loop" ELSE "exit"
    /\ rng' = random

\* the clock after the neighbor was scored
Clocked(frame, neighbor_fitness, durations) ==
    [frame EXCEPT !.elapsed = FAdd(@, ScoreTime(scorer, neighbor_fitness, durations))]

\* the neighbor is scored: the exception of score, or the decision and the
\* rest of the body
Evaluate(frame, temperature, outcome, neighbor_fitness, durations) ==
    IF neighbor_fitness.raised # ""
    THEN Unwind(neighbor_fitness.raised, Drawn(rng, run.current_pattern, outcome, <<>>))
    ELSE \E draw \in AcceptDraws(rng, run.current_pattern,
                                 DrawsRandom(run.current_fitness.total_score,
                                             neighbor_fitness.total_score,
                                             temperature)) :
            Goes(Evaluated(sa.config, Clocked(frame, neighbor_fitness, durations),
                           frame.iteration, temperature, outcome.pattern,
                           neighbor_fitness, draw,
                           call.positive_examples, call.negative_examples),
                 Drawn(rng, run.current_pattern, outcome, draw))

\* mutate returned or raised: the exception, the rejection of a neighbor
\* over max_complexity, or the evaluation of the neighbor
Neighbor(frame, temperature, outcome) ==
    IF outcome.raised # ""
    THEN Unwind(outcome.raised, Drawn(rng, run.current_pattern, outcome, <<>>))
    ELSE IF complexity(outcome.pattern.root) > sa.config.max_complexity
    THEN Goes(TooComplex(frame), Drawn(rng, run.current_pattern, outcome, <<>>))
    ELSE \E durations \in DurationProfiles(scorer, Len(call.positive_examples)
                                                     + Len(call.negative_examples)) :
            Evaluate(frame, temperature, outcome,
                     scorer_score(scorer, outcome.pattern, call.positive_examples,
                                  call.negative_examples, durations),
                     durations)

\* get_temperature returned or raised
Heated(iteration, temperature) ==
    IF temperature.raised # "" THEN Unwind(temperature.raised, rng)
    ELSE \E outcome \in Neighbors(rng, sa.mutator, run.current_pattern) :
            Neighbor([run EXCEPT !.iteration = iteration,
                                 !.decision = NoDecision,
                                 !.temperature_history = Append(@, temperature.value)],
                     temperature.value, outcome)

\* one iteration of the loop of optimize
Iterate ==
    /\ pc = "loop"
    /\ run.iteration + 1 < sa.config.max_iterations
    /\ IF TimedOut(sa.config, run.elapsed)
       THEN Goes([run EXCEPT !.iteration = run.iteration + 1,
                             !.decision = NoDecision,
                             !.convergence_reason = "timeout"], rng)
       ELSE Heated(run.iteration + 1,
                   get_temperature(sa.scheduler, run.iteration + 1,
                                   run.last_improvement_iteration))
    /\ UNCHANGED <<scorer, call, fitness, sa, result, restarts, first>>

\* the end of optimize: the else clause of the loop, then the SAResult,
\* whose `iteration + 1` needs the loop to have bound the name
Return ==
    /\ \/ pc = "exit"
       \/ pc = "loop" /\ ~(run.iteration + 1 < sa.config.max_iterations)
    /\ LET Ended(frame) ==
               IF frame.iteration < 0
               THEN /\ run' = [raised |-> "UnboundLocalError"]
                    /\ pc' = "raised"
                    /\ result' = result
               ELSE /\ run' = frame
                    /\ pc' = "returned"
                    /\ result' = SAResult(frame)
       IN  Ended(IF pc = "loop" THEN [run EXCEPT !.convergence_reason = "max_iterations"]
                 ELSE run)
    /\ UNCHANGED <<scorer, call, fitness, sa, rng, restarts, first>>

\* optimize_with_restarts after a call of optimize: an exception leaves it;
\* a result better than the best so far replaces it and gets the suffix of
\* the restart; then the next restart, or the return of the best result
Resume ==
    /\ call.entry = "optimize_with_restarts"
    /\ pc \in {"returned", "raised"}
    /\ IF pc = "raised"
       THEN /\ restarts' = [restarts EXCEPT !.raised = run.raised]
            /\ pc' = "done"
            /\ rng' = rng
       ELSE LET Suffixed == [result EXCEPT !.suffixes =
                                Append(@, <<restarts.restart + 1, call.num_restarts>>)]
                better ==
                    \/ restarts.best_result = <<>>
                    \/ FGt(result.best_fitness.total_score,
                           restarts.best_result[1].best_fitness.total_score)
            IN  /\ restarts' = [restarts EXCEPT
                                   !.best_result = IF better THEN Some(Suffixed) ELSE @,
                                   !.results = Append(@, result),
                                   !.restart = @ + 1]
                /\ IF restarts.restart + 1 < call.num_restarts
                   THEN /\ pc' = "calling"
                        /\ rng' = IF sa.config.random_seed # <<>>
                                  THEN Seeded(Some(sa.config.random_seed[1]
                                                   + restarts.restart + 1), <<>>)
                                  ELSE rng
                   ELSE /\ pc' = "done"
                        /\ rng' = rng
    /\ UNCHANGED <<scorer, call, fitness, sa, run, result, first>>

NextSA == OptimizeWithRestarts \/ Optimize \/ Iterate \/ Return \/ Resume

SpecSA == InitSA /\ [][NextSA]_vars

\* ------------------------------------------------------------------------
\* Specification of two runs: the optimizer is constructed from a
\* configuration with a seed and optimize is called; then it is constructed
\* again from the same configuration, which seeds the generator anew, and
\* optimize is called with the same arguments.
\* ------------------------------------------------------------------------

PairScenarios ==
    { Scenario("optimize", [DefaultConfig EXCEPT !.random_seed = Some(1),
                                                 !.max_iterations = 1],
               CliScorer,
               << <<"a">> >>, << <<"b">> >>, Some(PatternAST(LiteralNode(<<"b">>))), 0),
      Scenario("optimize", [DefaultConfig EXCEPT !.random_seed = Some(1)],
               SimpleFitnessScorer,
               << <<"a">> >>, << <<"b">> >>, Some(PatternAST(LiteralNode(<<"b">>))), 0) }

InitPair ==
    /\ \E scenario \in PairScenarios : Constructed(scenario, <<>>)
    /\ first = <<>>

\* the first run has returned: SimulatedAnnealing(config) again, whose
\* random.seed restarts the sequence that the first run drew from
Again ==
    /\ pc = "returned"
    /\ first = <<>>
    /\ first' = Some(result)
    /\ pc' = "idle"
    /\ sa' = SimulatedAnnealing(sa.config)
    /\ rng' = Seeded(sa.config.random_seed, rng.tape)
    /\ run' = None
    /\ result' = None
    /\ UNCHANGED <<scorer, call, fitness, restarts>>

NextPair == Optimize \/ Iterate \/ Return \/ Again

SpecPair == InitPair /\ [][NextPair]_vars

\* ------------------------------------------------------------------------
\* Pattern validation (validation/validator.py)
\* ------------------------------------------------------------------------

\* PatternValidator(timeout_seconds)
PatternValidator(timeout_seconds) ==
    [class |-> "PatternValidator", timeout_seconds |-> timeout_seconds]

ValidationResult(is_valid, regex_string, compilation_error, positive_matches, positive_failures, negative_matches, negative_failures, execution_time_ms, pattern_length, pattern_complexity, timeout_occurred, performance_warnings) ==
    [is_valid |-> is_valid,
     regex_string |-> regex_string,
     compilation_error |-> compilation_error,
     positive_matches |-> positive_matches,
     positive_failures |-> positive_failures,
     negative_matches |-> negative_matches,
     negative_failures |-> negative_failures,
     execution_time_ms |-> execution_time_ms,
     pattern_length |-> pattern_length,
     pattern_complexity |-> pattern_complexity,
     timeout_occurred |-> timeout_occurred,
     performance_warnings |-> performance_warnings]

\* the result of validate when re.compile raised re.error
CompilationError(pattern, regex_string, positive_examples, message) ==
    ValidationResult(FALSE, regex_string,
                     Some(<<"Regex compilation error: ", message>>),
                     <<>>, positive_examples, <<>>, <<>>, F0,
                     Len(regex_string), complexity(pattern.root), FALSE, <<>>)

\* IsValid without the performance warnings
IsValidDespiteWarnings(timeout_occurred, positive_failures, negative_matches, performance_warnings) ==
    /\ ~timeout_occurred
    /\ Len(positive_failures) = 0
    /\ Len(negative_matches) = 0

\* is_valid, from the locals of validate after the test
IsValid(timeout_occurred, positive_failures, negative_matches, performance_warnings) ==
    /\ ~timeout_occurred
    /\ Len(positive_failures) = 0
    /\ Len(negative_matches) = 0
    /\ Len(performance_warnings) = 0

\* the result of validate after the test; elapsed is time.time() - start_time
Validated(pattern, regex_string, tested, timeout_occurred, elapsed) ==
    ValidationResult(IsValid(timeout_occurred, tested.positive_failures,
                             tested.negative_matches, tested.performance_warnings),
                     regex_string, <<>>,
                     tested.positive_matches, tested.positive_failures,
                     tested.negative_matches, tested.negative_failures,
                     FMul(elapsed, FInt(1000)),
                     Len(regex_string), complexity(pattern.root),
                     timeout_occurred, tested.performance_warnings)

\* the locals of validate after except TimeoutError
TimedOutTest(positive_examples, negative_examples) ==
    [positive_matches |-> <<>>,
     positive_failures |-> positive_examples,
     negative_matches |-> negative_examples,
     negative_failures |-> <<>>,
     performance_warnings |->
         <<"Pattern execution timed out - possible catastrophic backtracking">>]

\* the thread of _test_pattern_with_timeout when it is started: the locals
\* of _test_pattern, the example it is at (the positives, then the
\* negatives), whether it is inside fullmatch and until when, and result[0]
Thread(compiled_pattern, now) ==
    [alive |-> TRUE,
     compiled_pattern |-> compiled_pattern,
     example |-> 1,
     matching |-> FALSE,
     start_time |-> now,
     until |-> now,
     positive_matches |-> <<>>,
     positive_failures |-> <<>>,
     negative_matches |-> <<>>,
     negative_failures |-> <<>>,
     performance_warnings |-> <<>>,
     result |-> <<>>,
     join_time |-> now,
     now |-> now]

\* validate returned before it started a thread
NoThread == [alive |-> FALSE]

\* one example of _test_pattern is done: it is appended to its list, with a
\* warning if the call took more than 0.1 s
Tested(thread, positive, example, matched, execution_time) ==
    [thread EXCEPT
        !.positive_matches = IF positive /\ matched THEN Append(@, example) ELSE @,
        !.positive_failures = IF positive /\ ~matched THEN Append(@, example) ELSE @,
        !.negative_matches = IF ~positive /\ matched THEN Append(@, example) ELSE @,
        !.negative_failures = IF ~positive /\ ~matched THEN Append(@, example) ELSE @,
        !.performance_warnings =
            IF FGt(execution_time, Flt(<<13107, 26214, 19660, 204>>, -56))  \* 0.1
            THEN Append(@, [slow |-> IF positive THEN "positive" ELSE "negative",
                            example |-> example, execution_time |-> execution_time])
            ELSE @,
        !.example = @ + 1,
        !.matching = FALSE]

\* the tuple _test_pattern returns
TestResult(thread) ==
    [positive_matches |-> thread.positive_matches,
     positive_failures |-> thread.positive_failures,
     negative_matches |-> thread.negative_matches,
     negative_failures |-> thread.negative_failures,
     performance_warnings |-> thread.performance_warnings]

\* the first ")" of the string at or after position i; 0 when there is none
RECURSIVE FirstClose(_, _)
FirstClose(regex_string, i) ==
    IF i > Len(regex_string) THEN 0
    ELSE IF regex_string[i] = ")" THEN i
    ELSE FirstClose(regex_string, i + 1)

HasRepeat(regex_string, from, to) ==
    \E k \in from..to : regex_string[k] \in {"*", "+"}

\* re.findall(r'\([^)]*[*+][^)]*\)[*+]', regex_string) from position i: a
\* "(", the text up to the first ")" with a "*" or "+" in it, and a "*" or
\* "+" after that ")"
RECURSIVE FindQuantifiedGroups(_, _)
FindQuantifiedGroups(regex_string, i) ==
    IF i > Len(regex_string) THEN <<>>
    ELSE LET close == FirstClose(regex_string, i + 1)
         IN  IF /\ regex_string[i] = "("
                /\ close > 0
                /\ HasRepeat(regex_string, i + 1, close - 1)
                /\ close < Len(regex_string)
                /\ regex_string[close + 1] \in {"*", "+"}
             THEN <<SubSeq(regex_string, i, close + 1)>>
                  \o FindQuantifiedGroups(regex_string, close + 2)
             ELSE FindQuantifiedGroups(regex_string, i + 1)

\* re.findall(r'[*+][^)]*\)', regex_string) from position i: a "*" or "+"
\* and the text up to the first ")" after it
RECURSIVE FindQuantifiersInGroups(_, _)
FindQuantifiersInGroups(regex_string, i) ==
    IF i > Len(regex_string) THEN <<>>
    ELSE LET close == FirstClose(regex_string, i + 1)
         IN  IF regex_string[i] \in {"*", "+"} /\ close > 0
             THEN <<SubSeq(regex_string, i, close)>>
                  \o FindQuantifiersInGroups(regex_string, close + 1)
             ELSE FindQuantifiersInGroups(regex_string, i + 1)

_find_nested_quantifiers(regex_string) ==
    FindQuantifiedGroups(regex_string, 1) \o FindQuantifiersInGroups(regex_string, 1)

\* the risk level of a risk score
RiskLevel(risk_score) ==
    IF risk_score = 0 THEN "low"
    ELSE IF risk_score <= 2 THEN "medium"
    ELSE IF risk_score <= 5 THEN "high"
    ELSE "critical"

\* the risk score, summed over the five checks in their order
RiskScore(regex_string, nested_quantifiers, char_class_count, unbounded_count) ==
    (IF nested_quantifiers # <<>> THEN 5 ELSE 0)
    + (IF count(regex_string, "|") > 0 THEN 1 ELSE 0)
    + (IF char_class_count > 3 THEN 1 ELSE 0)
    + (IF unbounded_count > 2 THEN 2 ELSE 0)
    + (IF Len(regex_string) > 100 THEN 1 ELSE 0)

\* the warnings of the five checks, by what each is about
RiskWarnings(regex_string, nested_quantifiers, char_class_count, unbounded_count) ==
    (IF nested_quantifiers # <<>> THEN <<"Nested quantifiers detected">> ELSE <<>>)
    \o (IF count(regex_string, "|") > 0 THEN <<"Alternation detected">> ELSE <<>>)
    \o (IF char_class_count > 3 THEN <<"Many character classes">> ELSE <<>>)
    \o (IF unbounded_count > 2 THEN <<"Multiple unbounded quantifiers">> ELSE <<>>)
    \o (IF Len(regex_string) > 100 THEN <<"Very long pattern">> ELSE <<>>)

SafetyAnalysis(pattern, regex_string, nested_quantifiers, char_class_count, unbounded_count) ==
    [risk_level |-> RiskLevel(RiskScore(regex_string, nested_quantifiers,
                                        char_class_count, unbounded_count)),
     risk_score |-> RiskScore(regex_string, nested_quantifiers,
                              char_class_count, unbounded_count),
     warnings |-> RiskWarnings(regex_string, nested_quantifiers,
                               char_class_count, unbounded_count),
     pattern_length |-> Len(regex_string),
     pattern_complexity |-> complexity(pattern.root),
     nested_quantifiers |-> nested_quantifiers,
     alternation_count |-> count(regex_string, "|"),
     quantifier_count |-> unbounded_count,
     character_class_count |-> char_class_count]

SafetyOf(pattern, regex_string) ==
    SafetyAnalysis(pattern, regex_string, _find_nested_quantifiers(regex_string),
                   count(regex_string, "["),
                   count(regex_string, "*") + count(regex_string, "+"))

analyze_pattern_safety(pattern) == SafetyOf(pattern, to_regex(pattern.root))

\* ------------------------------------------------------------------------
\* Specification of the validator: validate is called once; its test runs in
\* a daemon thread while the caller waits in thread.join(timeout).  A call of
\* fullmatch takes the wall-clock time the environment gives it.
\* ------------------------------------------------------------------------

ValidatorTimeouts == {Flt(<<0, 0, 0, 128>>, -51), F1}

ValidatePatterns ==
    { LiteralNode(<<"a">>),
      QuantifierNode(LiteralNode(<<"a">>), PyInt(1), None, FALSE),
      QuantifierNode(LiteralNode(<<"a">>), PyInt(3), PyInt(1), FALSE),
      QuantifierNode(LiteralNode(<<"a">>), MAXREPEAT, MAXREPEAT, FALSE),
      WildcardNode }

ValidatePositives == { <<>>, << <<"a">> >>, << <<"a">>, <<"b">> >> }

ValidateNegatives == { <<>>, << <<"b">> >> }

InitValidate ==
    /\ pc = "idle"
    /\ scorer \in {PatternValidator(t) : t \in ValidatorTimeouts}
    /\ call = None
    /\ fitness = None
    /\ sa = None
    /\ rng = None
    /\ run = None
    /\ result = None
    /\ restarts = None
    /\ first = None

\* validate up to thread.start() and thread.join(...)
ValidateCompiled(pattern, positive_examples, regex_string, compiled_pattern) ==
    IF compiled_pattern.err = TooLarge
    THEN /\ pc' = "raised"
         /\ run' = [raised |-> "OverflowError"]
         /\ result' = result
    ELSE IF compiled_pattern.err # ""
    THEN /\ pc' = "returned"
         /\ run' = NoThread
         /\ result' = CompilationError(pattern, regex_string, positive_examples,
                                       compiled_pattern.err)
    ELSE /\ pc' = "join"
         /\ run' = Thread(compiled_pattern.node, F0)
         /\ result' = result

Validate ==
    /\ pc = "idle"
    /\ \E root \in ValidatePatterns, positive_examples \in ValidatePositives,
          negative_examples \in ValidateNegatives :
         /\ call' = [pattern |-> PatternAST(root),
                     positive_examples |-> positive_examples,
                     negative_examples |-> negative_examples]
         /\ ValidateCompiled(PatternAST(root), positive_examples, to_regex(root),
                             re_compile(to_regex(root)))
    /\ UNCHANGED <<scorer, fitness, sa, rng, restarts, first>>

\* the thread is about to call compiled_pattern.fullmatch(example)
Begin ==
    /\ pc \in {"join", "woke", "returned"}
    /\ run.alive
    /\ ~run.matching
    /\ run.example <= Len(call.positive_examples) + Len(call.negative_examples)
    /\ \E duration \in MatchDurations :
         run' = [run EXCEPT !.matching = TRUE,
                            !.start_time = run.now,
                            !.until = FAdd(run.now, duration)]
    /\ UNCHANGED <<pc, scorer, call, fitness, sa, rng, result, restarts, first>>

\* fullmatch returns in the thread
End ==
    /\ pc \in {"join", "woke", "returned"}
    /\ run.alive
    /\ run.matching
    /\ run' = [Tested(run, run.example <= Len(call.positive_examples),
                      (call.positive_examples \o call.negative_examples)[run.example],
                      fullmatch(run.compiled_pattern,
                                (call.positive_examples \o call.negative_examples)[run.example]),
                      FSub(FMax(run.now, run.until), run.start_time))
                  EXCEPT !.now = FMax(run.now, run.until)]
    /\ UNCHANGED <<pc, scorer, call, fitness, sa, rng, result, restarts, first>>

\* _test_pattern returns and test_function with it: the thread ends
Exit ==
    /\ pc \in {"join", "woke", "returned"}
    /\ run.alive
    /\ ~run.matching
    /\ run.example > Len(call.positive_examples) + Len(call.negative_examples)
    /\ run' = [run EXCEPT !.alive = FALSE, !.result = Some(TestResult(run))]
    /\ UNCHANGED <<pc, scorer, call, fitness, sa, rng, result, restarts, first>>

\* thread.join(timeout=self.timeout_seconds) returns: the thread has ended,
\* or the timeout has elapsed; during a call of fullmatch time passes
Join ==
    /\ pc = "join"
    /\ \/ /\ ~run.alive
          /\ run' = run
       \/ /\ run.alive
          /\ FGe(IF run.matching THEN run.until ELSE run.now,
                 FAdd(run.join_time, scorer.timeout_seconds))
          /\ run' = [run EXCEPT !.now = FMax(@, FAdd(run.join_time, scorer.timeout_seconds))]
    /\ pc' = "woke"
    /\ UNCHANGED <<scorer, call, fitness, sa, rng, result, restarts, first>>

\* if thread.is_alive(): raise TimeoutError, which validate catches; else
\* return result[0]; then validate returns its ValidationResult
IsAlive ==
    /\ pc = "woke"
    /\ result' = IF run.alive
                 THEN Validated(call.pattern, to_regex(call.pattern.root),
                                TimedOutTest(call.positive_examples, call.negative_examples),
                                TRUE, run.now)
                 ELSE Validated(call.pattern, to_regex(call.pattern.root),
                                run.result[1], FALSE, run.now)
    /\ pc' = "returned"
    /\ UNCHANGED <<scorer, call, fitness, sa, rng, run, restarts, first>>

NextValidate == Validate \/ Begin \/ End \/ Exit \/ Join \/ IsAlive

SpecValidate == InitValidate /\ [][NextValidate]_vars

\* ------------------------------------------------------------------------
\* Specification of the operations on one pattern tree: a tree is built, and
\* then it is analyzed for safety, or serialized, or cloned and the clone
\* changed.  run is the heap with the address of the tree's root.
\* ------------------------------------------------------------------------

TreeLeaves ==
    { LiteralNode(<<"a">>),
      LiteralNode(<<"a", "b">>),
      CharacterClassNode({"a"}, FALSE, << <<"0", "9">> >>),
      WildcardNode,
      AnchorNode(<<"^">>) }

\* the nodes that can be put around the children
TreesAround(children) ==
    {QuantifierNode(child, PyInt(0), None, FALSE) : child \in children}
    \cup {QuantifierNode(child, PyInt(1), None, FALSE) : child \in children}
    \cup {QuantifierNode(child, PyInt(2), PyInt(3), TRUE) : child \in children}
    \cup {QuantifierNode(child, PyInt(1), PyInt(1), FALSE) : child \in children}
    \cup {GroupNode(child, TRUE, <<>>) : child \in children}
    \cup {GroupNode(child, FALSE, <<>>) : child \in children}

TreesOfTwo(children, others) ==
    {AlternationNode(<<child, other>>) : child \in children, other \in others}

SmallTrees == TreeLeaves \cup TreesAround(TreeLeaves) \cup TreesOfTwo(TreeLeaves, TreeLeaves)

Trees ==
    SmallTrees \cup TreesAround(SmallTrees \ TreeLeaves)
               \cup TreesOfTwo(SmallTrees \ TreeLeaves, {LiteralNode(<<"a">>)})

InitTree ==
    /\ pc = "idle"
    /\ call \in {[pattern |-> PatternAST(root)] : root \in Trees}
    /\ scorer = PatternValidator(Flt(<<0, 0, 0, 128>>, -51))
    /\ fitness = None
    /\ sa = [mutator |-> PatternMutator(Flt(<<6554, 13107, 26214, 204>>, -56))]
    /\ rng = None
    /\ run = Alloc(<<>>, call.pattern.root)
    /\ result = None
    /\ restarts = None
    /\ first = None

\* validator.analyze_pattern_safety(pattern)
AnalyzePatternSafety ==
    /\ pc = "idle"
    /\ result' = analyze_pattern_safety(call.pattern)
    /\ pc' = "analyzed"
    /\ UNCHANGED <<scorer, call, fitness, sa, rng, run, restarts, first>>

\* pattern.to_regex()
ToRegex ==
    /\ pc = "idle"
    /\ result' = to_regex(call.pattern.root)
    /\ pc' = "serialized"
    /\ UNCHANGED <<scorer, call, fitness, sa, rng, run, restarts, first>>

\* pattern.clone(): first is the address of the clone's root
Clone ==
    /\ pc = "idle"
    /\ run' = [CloneAt(run.heap, run.at) EXCEPT !.at = run.at]
    /\ first' = Some(CloneAt(run.heap, run.at).at)
    /\ pc' = "cloned"
    /\ UNCHANGED <<scorer, call, fitness, sa, rng, result, restarts>>

\* the caller changes a set or a list of the clone in place
Change ==
    /\ pc = "cloned"
    /\ \E at \in Containers(run.heap, first[1]) :
          run' = [run EXCEPT !.heap[at] = Changed(@)]
    /\ pc' = "changed"
    /\ UNCHANGED <<scorer, call, fitness, sa, rng, result, restarts, first>>

\* mutator.mutate(pattern): first is the address of the root of the pattern
\* returned, and result tells which nodes the call selected.  No tree of Trees has an alternation without alternatives, the
\* one node at which an operator raises.
MutateTree ==
    /\ pc = "idle"
    /\ \E made \in MutateAt(run.heap, sa.mutator, run.at) :
          /\ run' = [heap |-> made.heap, at |-> run.at]
          /\ first' = Some(made.at)
          /\ result' = [selected |-> made.selected, chosen |-> made.chosen]
    /\ pc' = "mutated"
    /\ UNCHANGED <<scorer, call, fitness, sa, rng, restarts>>

\* the caller changes an object of the returned pattern in place
Touch ==
    /\ pc = "mutated"
    /\ \E at \in Objects(run.heap, first[1]) :
          run' = [run EXCEPT !.heap[at] = Touched(@)]
    /\ pc' = "touched"
    /\ UNCHANGED <<scorer, call, fitness, sa, rng, result, restarts, first>>

NextTree == AnalyzePatternSafety \/ ToRegex \/ Clone \/ Change \/ MutateTree \/ Touch

SpecTree == InitTree /\ [][NextTree]_vars

\* ------------------------------------------------------------------------
\* Specification of the scheduler: an optimizer is constructed with the
\* adaptive schedule, and its scheduler is asked for a temperature.
\* ------------------------------------------------------------------------

\* the first iterations, and those more than stagnation_threshold after the
\* last improvement
CoolingIterations == 0..3 \cup 51..53

LastImprovements == 0..3 \cup {53}

InitCooling ==
    /\ pc = "idle"
    /\ sa \in {SimulatedAnnealing([DefaultConfig EXCEPT !.max_iterations = n]) :
                  n \in DOMAIN PowThousandth}
    /\ scorer = None
    /\ call = None
    /\ fitness = None
    /\ rng = None
    /\ run = None
    /\ result = None
    /\ restarts = None
    /\ first = None

\* self.scheduler.get_temperature(iteration, last_improvement_iteration)
GetTemperature ==
    /\ pc = "idle"
    /\ \E iteration \in CoolingIterations, last_improvement_iter \in LastImprovements :
          /\ call' = [iteration |-> iteration,
                      last_improvement_iter |-> last_improvement_iter]
          /\ result' = get_temperature(sa.scheduler, iteration, last_improvement_iter)
    /\ pc' = "cooled"
    /\ UNCHANGED <<scorer, fitness, sa, rng, run, restarts, first>>

NextCooling == GetTemperature

SpecCooling == InitCooling /\ [][NextCooling]_vars

\* ------------------------------------------------------------------------
\* Specification of the analyzer: examples are analyzed, the initial pattern
\* is generated from the analysis, and the pattern is scored on the examples
\* with no negatives.  call holds the examples, run the PatternAnalysis,
\* result the initial pattern and fitness what score returned.
\* ------------------------------------------------------------------------

\* lists of examples: of each kind of the registry, of the character
\* compositions, and the empty ones
ExampleLists ==
    { <<<<"a", "@", "b", ".", "c", "o">>>>,
      <<<<"a", "@", "b", ".", "c", "o">>, <<"x", ".", "y", "@", "z", ".", "o", "r", "g">>>>,
      <<<<"h", "t", "t", "p", ":", "/", "/", "a", ".", "c", "o">>>>,
      <<<<"h", "t", "t", "p", "s", ":", "/", "/", "a", ".", "c", "o", "/", "x">>, <<"h", "t", "t", "p", ":", "/", "/", "b", ".", "i", "o">>>>,
      <<<<"5", "5", "5", "1", "2", "3", "4">>>>,
      <<<<"+", "1", " ", "(", "5", "5", "5", ")", " ", "1", "2", "3", "-", "4", "5", "6", "7">>, <<"5", "5", "5", "-", "1", "2", "3", "4">>>>,
      <<<<"2", "0", "2", "4", "-", "0", "1", "-", "1", "5">>>>,
      <<<<"2", "0", "2", "4", "-", "0", "1", "-", "1", "5">>, <<"1", "9", "9", "9", "-", "1", "2", "-", "3", "1">>>>,
      <<<<"1", "/", "2", "/", "2", "0", "2", "4">>>>,
      <<<<"1", "/", "2", "/", "2", "0", "2", "4">>, <<"1", "2", "/", "3", "1", "/", "1", "9", "9", "9">>>>,
      <<<<"1", "2", ":", "3", "0">>>>,
      <<<<"1", "2", ":", "3", "0">>, <<"1", ":", "0", "5", " ", "P", "M">>>>,
      <<<<"1", ".", "2", ".", "3", ".", "4">>>>,
      <<<<"1", ".", "2", ".", "3", ".", "4">>, <<"1", "9", "2", ".", "1", "6", "8", ".", "0", ".", "1">>>>,
      <<<<"#", "a", "1", "b", "2", "c", "3">>>>,
      <<<<"#", "a", "1", "b", "2", "c", "3">>, <<"#", "F", "F", "F", "F", "F", "F">>>>,
      <<<<"1", "2", "3", "e", "4", "5", "6", "7", "-", "e", "8", "9", "b", "-", "1", "2", "d", "3", "-", "a", "4", "5", "6", "-", "4", "2", "6", "6", "1", "4", "1", "7", "4", "0", "0", "0">>>>,
      <<>>,
      <<<<>>>>,
      <<<<"7">>>>,
      <<<<"1", "2">>, <<"3", "4", "5">>>>,
      <<<<"1", "2", "3">>, <<"4", "5", "6">>>>,
      <<<<"a", "b">>, <<"c", "d">>>>,
      <<<<"a">>, <<"b", "c", "d">>, <<"e", "f">>>>,
      <<<<"a", "b", "c">>, <<"A", "B", "C">>>>,
      <<<<"a", "1">>, <<"b", "2">>>>,
      <<<<"a", "-", "b">>, <<"c", "_", "d">>>>,
      <<<<"a", " ", "b">>, <<"c", "!", "d">>>>,
      <<<<"a", "b", "a", "b">>, <<"c", "d", "c", "d", "c", "d">>>>,
      <<<<"a", "b">>, <<"a", "b", "c", "d", "e", "f", "g", "h", "i">>>> }

InitAnalyze ==
    /\ pc = "idle"
    /\ call \in {[examples |-> examples] : examples \in ExampleLists}
    /\ scorer \in {MultiCriteriaScorer(mode, F1) : mode \in ScoringModes}
    /\ fitness = None
    /\ sa = None
    /\ rng = None
    /\ run = None
    /\ result = None
    /\ restarts = None
    /\ first = None

\* analysis = analyzer.analyze_examples(examples)
AnalyzeExamples ==
    /\ pc = "idle"
    /\ run' = analyze_examples(PatternAnalyzer, call.examples)
    /\ pc' = "analyzed"
    /\ UNCHANGED <<scorer, call, fitness, sa, rng, result, restarts, first>>

\* pattern = analyzer.generate_initial_pattern(analysis)
GenerateInitialPattern ==
    /\ pc = "analyzed"
    /\ result' = generate_initial_pattern(PatternAnalyzer, run)
    /\ pc' = "generated"
    /\ UNCHANGED <<scorer, call, fitness, sa, rng, run, restarts, first>>

\* scorer.score(pattern, examples, [])
ScoreInitialPattern ==
    /\ pc = "generated"
    /\ \E durations \in DurationLists(Len(call.examples)) :
          /\ fitness' = score(scorer, result, call.examples, <<>>, durations)
          /\ call' = [examples |-> call.examples, durations |-> durations]
    /\ pc' = "scored"
    /\ UNCHANGED <<scorer, sa, rng, run, result, restarts, first>>

NextAnalyze == AnalyzeExamples \/ GenerateInitialPattern \/ ScoreInitialPattern

SpecAnalyze == InitAnalyze /\ [][NextAnalyze]_vars

\* ------------------------------------------------------------------------
\* Specification of the producers of patterns: a pattern is generated, by
\* the analyzer from examples or at random by the mutator, and then mutated
\* step by step.  sa holds the mutator, result the pattern, and call says
\* where the pattern came from and how many mutate steps it went through.
\* ------------------------------------------------------------------------

\* the values of max_complexity the random patterns are generated with
RandomComplexities == {1, 4}

\* the greatest number of mutate steps on one pattern
MaxMutations == 2

InitMutate ==
    /\ pc = "idle"
    /\ sa = [mutator |-> PatternMutator(Flt(<<6554, 13107, 26214, 204>>, -56))]
    /\ scorer = None
    /\ call = None
    /\ fitness = None
    /\ rng = None
    /\ run = None
    /\ result = None
    /\ restarts = None
    /\ first = None

\* analyzer.generate_initial_pattern(analyzer.analyze_examples(examples))
GenerateSeed ==
    /\ pc = "idle"
    /\ \E examples \in ExampleLists :
          result' = generate_initial_pattern(PatternAnalyzer,
                                             analyze_examples(PatternAnalyzer, examples))
    /\ call' = [origin |-> "analyzer", steps |-> 0]
    /\ pc' = "generated"
    /\ UNCHANGED <<scorer, fitness, sa, rng, run, restarts, first>>

\* mutator.generate_random_pattern(max_complexity)
GenerateRandomPattern ==
    /\ pc = "idle"
    /\ \E max_complexity \in RandomComplexities :
          \E generated \in generate_random_pattern(sa.mutator,
                                                   [max_complexity |-> max_complexity]) :
             /\ generated.raised = ""
             /\ result' = generated.pattern
    /\ call' = [origin |-> "mutator", steps |-> 0]
    /\ pc' = "generated"
    /\ UNCHANGED <<scorer, fitness, sa, rng, run, restarts, first>>

\* pattern = mutator.mutate(pattern); an exception leaves the pattern as it is
Mutate ==
    /\ pc \in {"generated", "mutated"}
    /\ call.steps < MaxMutations
    /\ \E mutated \in mutate(sa.mutator, result) :
          /\ result' = IF mutated.raised = "" THEN mutated.pattern ELSE result
          /\ pc' = IF mutated.raised = "" THEN "mutated" ELSE "raised"
    /\ call' = [call EXCEPT !.steps = @ + 1]
    /\ UNCHANGED <<scorer, fitness, sa, rng, run, restarts, first>>

NextMutate == GenerateSeed \/ GenerateRandomPattern \/ Mutate

SpecMutate == InitMutate /\ [][NextMutate]_vars

\* ------------------------------------------------------------------------
\* Specification of the range mutation: a character class is built and
\* CharClassToRangeMutation is applied to it.  call holds the class and
\* result the node the operator returned.
\* ------------------------------------------------------------------------

\* the characters the classes are drawn from: eleven consecutive ones, from
\* Z to d, with three of those a class escapes, and the hyphen
ClassAlphabet ==
    {"Z", "[", "\\", "]", "^", "_", "grave", "a", "b", "c", "d", "-"}

\* how many characters a class has
ClassSizes == 3..5

CharacterClasses ==
    { CharacterClassNode(characters, negated, ranges) :
          characters \in {chars \in SUBSET ClassAlphabet : Cardinality(chars) \in ClassSizes},
          negated \in BOOLEAN,
          ranges \in { <<>>, << <<"0", "9">> >> } }

InitRange ==
    /\ pc = "idle"
    /\ call \in {[node |-> node] : node \in CharacterClasses}
    /\ scorer = None
    /\ fitness = None
    /\ sa = None
    /\ rng = None
    /\ run = None
    /\ result = None
    /\ restarts = None
    /\ first = None

\* if op.can_apply(node): op.apply(node), for op = CharClassToRangeMutation()
ApplyCharClassToRange ==
    /\ pc = "idle"
    /\ can_apply("char_class_to_range", call.node)
    /\ \E applied \in apply("char_class_to_range", call.node) :
          /\ applied.raised = ""
          /\ result' = applied.node
    /\ pc' = "ranged"
    /\ UNCHANGED <<scorer, call, fitness, sa, rng, run, restarts, first>>

NextRange == ApplyCharClassToRange

SpecRange == InitRange /\ [][NextRange]_vars

\* ------------------------------------------------------------------------
\* Claims about the optimizer, under SpecSA and SpecPair
\* ------------------------------------------------------------------------

\* C1: for non-empty positives optimize returns a result and does not raise,
\* also when no initial pattern is given; and when no neighbor was accepted
\* the best pattern returned is the starting pattern.
C1_OptimizeReturns ==
    (call.entry = "optimize" /\ call.positive_examples # <<>>) =>
        /\ pc # "raised"
        /\ (pc = "returned" /\ result.accepted_moves = 0 /\ call.initial_pattern # <<>>) =>
               result.best_pattern = call.initial_pattern[1]

\* C17: optimize called with an empty list of positive examples fails
\* visibly to the caller: it does not run a search and return an ordinary
\* result.
C17_EmptyPositivesRefused ==
    (call.entry = "optimize" /\ call.positive_examples = <<>>) =>
        pc \in {"idle", "raised"}

\* C2: in a run of optimize the best total never decreases from one
\* iteration to the next, and the best total of the frame, which is the one
\* returned, is at least the total of the starting pattern.
C2_BestNeverDecreases ==
    [][ /\ (pc = "loop" /\ pc' \in {"loop", "exit"}) =>
               FGe(run'.best_fitness.total_score, run.best_fitness.total_score)
        /\ pc' = "returned" =>
               /\ FGe(result'.best_fitness.total_score, run.best_fitness.total_score)
               /\ FGe(result'.best_fitness.total_score, run.start_fitness.total_score)
      ]_vars

\* a neighbor below the best solution was accepted as the current one
C2_WorseAccepted ==
    /\ pc \in {"loop", "exit", "returned"}
    /\ run.decision.evaluated
    /\ run.decision.accept
    /\ FLt(run.current_fitness.total_score, run.best_fitness.total_score)

\* C3: a neighbor with a strictly greater total is accepted; one with an
\* equal or lower total is not accepted at a temperature <= 0, and at a
\* temperature > 0 it is accepted exactly when the draw is below
\* exp((neighbor - current) / temperature).
C3_AcceptanceRule ==
    (pc \in {"loop", "exit", "returned"} /\ run.decision.evaluated) =>
        IF FGt(run.decision.neighbor_score, run.decision.current_score)
        THEN run.decision.accept
        ELSE IF FLe(run.decision.temperature, F0)
        THEN ~run.decision.accept
        ELSE /\ run.decision.draw # <<>>
             /\ run.decision.accept =
                    DrawBelowExp(run.decision.draw[1],
                                 FDiv(FSub(run.decision.neighbor_score,
                                           run.decision.current_score),
                                      run.decision.temperature))

\* a neighbor that is not better was turned down by the draw
C3_RejectedByDraw ==
    /\ pc \in {"loop", "exit", "returned"}
    /\ run.decision.evaluated
    /\ ~run.decision.accept
    /\ run.decision.draw # <<>>
    /\ FLt(run.decision.neighbor_score, run.decision.current_score)

ConvergenceReasons ==
    {"timeout", "no_improvement", "perfect_solution", "temperature_converged",
     "max_iterations"}

\* C4: the convergence_reason returned is one of the five, and each only
\* when its condition held at the stop.
C4_ReasonHeld ==
    pc = "returned" =>
        /\ result.convergence_reason \in ConvergenceReasons
        /\ result.convergence_reason = "no_improvement" =>
               run.no_improvement_count >= sa.config.max_no_improvement
        /\ result.convergence_reason = "perfect_solution" =>
               /\ FGe(result.best_fitness.total_score,
                      Flt(<<1835, 12845, 24379, 255>>, -53))
               /\ result.best_fitness.positive_matches = Len(call.positive_examples)
               /\ result.best_fitness.negative_matches = Len(call.negative_examples)
        /\ result.convergence_reason = "temperature_converged" =>
               FLt(result.final_temperature, sa.config.final_temperature)
        /\ result.convergence_reason = "timeout" =>
               /\ sa.config.timeout_seconds # <<>>
               /\ FGt(run.elapsed, sa.config.timeout_seconds[1])
        /\ result.convergence_reason = "max_iterations" =>
               /\ result.iterations = sa.config.max_iterations
               /\ Len(result.temperature_history) = sa.config.max_iterations

\* a run stopped on a perfect solution
C4_PerfectReturned ==
    pc = "returned" /\ result.convergence_reason = "perfect_solution"

\* C5: two runs with the same seed, examples, configuration and scorer
\* return the same regex string, the same counters and the same histories.
C5_SeededRunsAgree ==
    (pc = "returned" /\ first # <<>>) =>
        /\ to_regex(result.best_pattern.root) = to_regex(first[1].best_pattern.root)
        /\ result.accepted_moves = first[1].accepted_moves
        /\ result.rejected_moves = first[1].rejected_moves
        /\ result.temperature_history = first[1].temperature_history
        /\ result.fitness_history = first[1].fitness_history

\* C6: optimize_with_restarts(k), k >= 1, returns a result whose best total
\* is at least that of every restart's result, with exactly one suffix in
\* its convergence_reason, after k runs of optimize.
C6_RestartsReturnBest ==
    (pc = "done" /\ call.num_restarts >= 1) =>
        /\ restarts.raised = ""
        /\ restarts.best_result # <<>>
        /\ Len(restarts.results) = call.num_restarts
        /\ Len(restarts.best_result[1].suffixes) = 1
        /\ \A i \in DOMAIN restarts.results :
               FGe(restarts.best_result[1].best_fitness.total_score,
                   restarts.results[i].best_fitness.total_score)

\* ------------------------------------------------------------------------
\* Claims about the scorer, under SpecScore
\* ------------------------------------------------------------------------

InUnit(v) == FGe(v, F0) /\ FLe(v, F1)

\* C7: the correctness, complexity, readability, performance and total scores
\* that score returns each lie within [0, 1].
C7_ScoresWithinUnit ==
    pc = "returned" =>
        /\ InUnit(fitness.correctness_score)
        /\ InUnit(fitness.complexity_score)
        /\ InUnit(fitness.readability_score)
        /\ InUnit(fitness.performance_score)
        /\ InUnit(fitness.total_score)

\* whether re.compile rejects what the pattern of the call serializes to
CompileFails == re_compile(to_regex(call.pattern.root)).err # ""

\* C8: when the serialized pattern fails to compile, score does not raise: it
\* returns zero total and sub-scores, zero match counts, the example totals
\* and a compilation_error.
C8_CompileFailureReturned ==
    (pc # "idle" /\ CompileFails) =>
        /\ pc = "returned"
        /\ fitness.total_score = F0
        /\ fitness.correctness_score = F0
        /\ fitness.complexity_score = F0
        /\ fitness.readability_score = F0
        /\ fitness.performance_score = F0
        /\ fitness.positive_matches = 0
        /\ fitness.negative_matches = 0
        /\ fitness.positive_total = Len(call.positive_examples)
        /\ fitness.negative_total = Len(call.negative_examples)
        /\ fitness.compilation_error # ""

\* how long the performance pass of the call took, on the clock it reads
PassTime ==
    PerformanceLoop(scorer.timeout_seconds, call.durations, 1,
                    Min(100, Len(call.durations)), F0).execution_time

\* C9: whenever the performance pass takes longer than the timeout, a single
\* match call that alone exceeds it included, score returns with
\* timeout_occurred = true and performance_score = 0.
C9_TimeoutReported ==
    (pc = "returned" /\ fitness.compilation_error = ""
       /\ FGt(PassTime, scorer.timeout_seconds)) =>
        fitness.timeout_occurred /\ fitness.performance_score = F0

\* the ratio of a count to a total, 1 for an empty total
Ratio(matches, total) == IF total = 0 THEN F1 ELSE FDiv(FInt(matches), FInt(total))

\* C19: the correctness score is 1 when both example lists are empty, the
\* ratio of rejected negatives when only the positives are empty, the ratio
\* of matched positives when only the negatives are empty, and otherwise
\* 0.8 * p + 0.2 * n, times 0.1 when no positive matched; and whenever there
\* is a positive and none of them matched, it is at most 0.02.
C19_CorrectnessCases ==
    (pc = "returned" /\ fitness.compilation_error = "") =>
        /\ fitness.correctness_score =
              IF fitness.positive_total = 0 /\ fitness.negative_total = 0 THEN F1
              ELSE IF fitness.positive_total = 0
              THEN Ratio(fitness.negative_matches, fitness.negative_total)
              ELSE IF fitness.negative_total = 0
              THEN Ratio(fitness.positive_matches, fitness.positive_total)
              ELSE FMul(FAdd(FMul(Flt(<<6554, 13107, 26214, 204>>, -53),
                                  Ratio(fitness.positive_matches, fitness.positive_total)),
                             FMul(Flt(<<6554, 13107, 26214, 204>>, -55),
                                  Ratio(fitness.negative_matches, fitness.negative_total))),
                        IF fitness.positive_matches = 0
                        THEN Flt(<<6554, 13107, 26214, 204>>, -56) ELSE F1)
        /\ (fitness.positive_total > 0 /\ fitness.positive_matches = 0) =>
              FLe(fitness.correctness_score, Flt(<<5243, 3932, 27525, 163>>, -58))

\* ------------------------------------------------------------------------
\* Claims about the validator, under SpecValidate
\* ------------------------------------------------------------------------

\* C10: validate reports is_valid = true if and only if the pattern
\* compiled, every positive example fully matched, every negative example
\* was rejected, no timeout occurred and no performance warning was produced.
C10_ValidIff ==
    pc = "returned" =>
        (result.is_valid <=>
            /\ re_compile(result.regex_string).err = ""
            /\ result.compilation_error = <<>>
            /\ \A i \in DOMAIN call.positive_examples :
                   fullmatch(re_compile(result.regex_string).node, call.positive_examples[i])
            /\ \A i \in DOMAIN call.negative_examples :
                   ~fullmatch(re_compile(result.regex_string).node, call.negative_examples[i])
            /\ ~result.timeout_occurred
            /\ result.performance_warnings = <<>>)

\* validate returned is_valid = false only for a slow match: everything
\* matched as it should and nothing timed out
C10_SlowOnly ==
    /\ pc = "returned"
    /\ ~result.is_valid
    /\ ~result.timeout_occurred
    /\ result.compilation_error = <<>>
    /\ result.positive_failures = <<>>
    /\ result.negative_matches = <<>>
    /\ call.positive_examples # <<>>

\* C11: when the test has not finished within timeout_seconds the caller
\* gets is_valid = false, timeout_occurred = true, a performance warning and
\* every positive as a failure; and once validate has returned so, the
\* thread of that test does no further work.
C11_TimeoutStopsWork ==
    [][ (pc = "returned" /\ result.timeout_occurred) =>
            /\ ~result.is_valid
            /\ result.performance_warnings # <<>>
            /\ result.positive_failures = call.positive_examples
            /\ run' = run
      ]_vars

\* a quantifier without an upper bound
Unbounded(node) == node.type = "quantifier" /\ IsNone(node.max_count)

\* C12: for a pattern that is an unbounded quantifier whose child is itself
\* an unbounded quantifier, analyze_pattern_safety returns a non-empty
\* nested_quantifiers list, risk_score >= 5 and the risk level critical.
C12_NestedQuantifiersCritical ==
    (pc = "analyzed" /\ Unbounded(call.pattern.root)
       /\ Unbounded(call.pattern.root.child)) =>
        /\ result.nested_quantifiers # <<>>
        /\ result.risk_score >= 5
        /\ result.risk_level = "critical"

\* C14: the clone of a tree has the serialization and the complexity of the
\* tree, and a later change of a character set, a ranges list or an
\* alternatives list of the clone, at any depth, leaves the serialization of
\* the tree as it was.
C14_CloneIsDeepCopy ==
    /\ pc = "cloned" =>
          /\ to_regex(Load(run.heap, first[1])) = to_regex(Load(run.heap, run.at))
          /\ complexity(Load(run.heap, first[1])) = complexity(Load(run.heap, run.at))
          /\ first[1] # run.at
    /\ pc \in {"cloned", "changed"} =>
          to_regex(Load(run.heap, run.at)) = to_regex(call.pattern.root)

\* a list or set below the root of the clone was changed, and the clone now
\* serializes differently from the tree
C14_CloneChangedBelow ==
    /\ pc = "changed"
    /\ call.pattern.root.type \in {"quantifier", "group", "alternation"}
    /\ to_regex(Load(run.heap, first[1])) # to_regex(Load(run.heap, run.at))

\* the regex of a quantifier whose child is put in a non-capturing group
WrappedChild(node) ==
    <<"(", "?", ":">> \o to_regex(node.child) \o <<")">> \o FullSuffix(node)

\* C20: a quantifier whose child is an alternation, a literal of more than
\* one character or another quantifier serializes with the child in a
\* non-capturing group before the suffix; an alternation at the top
\* serializes without a group around it.
C20_QuantifierWrapsChild ==
    pc = "serialized" =>
        /\ ( /\ call.pattern.root.type = "quantifier"
             /\ \/ call.pattern.root.child.type \in {"alternation", "quantifier"}
                \/ /\ call.pattern.root.child.type = "literal"
                   /\ Len(call.pattern.root.child.value) > 1 ) =>
               result = WrappedChild(call.pattern.root)
        /\ call.pattern.root.type = "alternation" =>
               result = JoinAlternatives(call.pattern.root.alternatives)

\* C21: a quantifier with min_count = max_count = 1 serializes to exactly
\* the serialization of its child, with no quantifier suffix.
C21_ExactlyOnceIsBareChild ==
    ( /\ pc = "serialized"
      /\ call.pattern.root.type = "quantifier"
      /\ call.pattern.root.min_count = PyInt(1)
      /\ call.pattern.root.max_count = PyInt(1) ) =>
        result = to_regex(call.pattern.root.child)

\* ------------------------------------------------------------------------
\* Claims about the scheduler, under SpecCooling
\* ------------------------------------------------------------------------

\* C18: with the adaptive schedule every temperature the scheduler returns
\* is greater than or equal to final_temperature, for every iteration and
\* every last_improvement_iteration.
C18_AdaptiveAtLeastFinal ==
    (pc = "cooled" /\ sa.config.cooling_schedule = "adaptive" /\ result.raised = "") =>
        FGe(result.value, sa.config.final_temperature)

\* the exponential temperature, slowed down for stagnation, was below
\* final_temperature
C18_RaisedToFinal ==
    /\ pc = "cooled"
    /\ call.iteration - call.last_improvement_iter > sa.scheduler.stagnation_threshold
    /\ result.raised = ""
    /\ result.value = sa.config.final_temperature
    /\ FLt(Slowed(sa.scheduler, call.iteration - call.last_improvement_iter,
                  _exponential_cooling(sa.scheduler, call.iteration).value),
           sa.config.final_temperature)

\* ------------------------------------------------------------------------
\* Claims about the analyzer, under SpecAnalyze
\* ------------------------------------------------------------------------

\* the kinds of the registry whose regex matches every example
MatchingKinds(examples) ==
    {kind \in DOMAIN PatternAnalyzer.domain_patterns :
        \A i \in DOMAIN examples :
            match(PatternAnalyzer.domain_patterns[kind], examples[i])}

\* C15: for each of the nine kinds of the registry, whenever every example
\* matches that kind's domain regex, analyze_examples reports that kind as
\* the detected pattern type.
C15_MatchingKindDetected ==
    (pc = "analyzed" /\ call.examples # <<>>) =>
        \A kind \in MatchingKinds(call.examples) : run.pattern_type = kind

\* C16: when all the examples match one of the nine domain regexes, the
\* pattern that generate_initial_pattern returns for their analysis, scored
\* on them with no negatives, has a correctness of 0.8 or more.
C16_SeedCorrectness ==
    (pc = "scored" /\ call.examples # <<>> /\ MatchingKinds(call.examples) # {}) =>
        /\ fitness.raised = ""
        /\ FGe(fitness.correctness_score, Flt(<<6554, 13107, 26214, 204>>, -53))

\* ------------------------------------------------------------------------
\* Claims about the producers of patterns, under SpecMutate
\* ------------------------------------------------------------------------

\* C13: every pattern that the analyzer's seed generation produces, or
\* generate_random_pattern, or any sequence of mutate steps from such a
\* pattern, serializes to a regex string that compiles.
C13_ProducedPatternsCompile ==
    pc \in {"generated", "mutated"} => re_compile(to_regex(result.root)).err = ""

\* ------------------------------------------------------------------------
\* Claims about the range mutation, under SpecRange
\* ------------------------------------------------------------------------

\* the characters a compiled pattern accepts as a whole string
AcceptedChars(compiled) ==
    {AsciiChars[i] : i \in {k \in DOMAIN AsciiChars : fullmatch(compiled, <<AsciiChars[k]>>)}}

\* C22: for every character class CharClassToRange applies to, the
\* serialized result accepts exactly the characters the serialized input
\* accepts.
C22_RangesAcceptSameChars ==
    pc = "ranged" =>
        /\ re_compile(to_regex(result)).err = ""
        /\ AcceptedChars(re_compile(to_regex(result)).node)
             = AcceptedChars(re_compile(to_regex(call.node)).node)

\* C23: mutate returns a new pattern and leaves its input as it was: the
\* returned tree has no object in common with the input, and after the call,
\* and after any later change of an object of the returned tree, the input
\* is the tree it was, with the serialization and the complexity it had.
C23_MutateLeavesInput ==
    /\ pc = "mutated" =>
          Objects(run.heap, first[1]) \cap Objects(run.heap, run.at) = {}
    /\ pc \in {"mutated", "touched"} =>
          /\ Load(run.heap, run.at) = call.pattern.root
          /\ to_regex(Load(run.heap, run.at)) = to_regex(call.pattern.root)
          /\ complexity(Load(run.heap, run.at)) = complexity(call.pattern.root)

\* an operator was applied to the root of a tree with a set or list below
\* it, and an object of the returned tree was changed afterwards
C23_MutatedThenTouched ==
    /\ pc = "touched"
    /\ Containers(run.heap, run.at) # {}
    /\ run.heap[first[1]].type # call.pattern.root.type
    /\ to_regex(Load(run.heap, first[1])) # to_regex(call.pattern.root)

\* the tree with the node at an index of _collect_nodes replaced
RECURSIVE Spliced(_, _, _)
RECURSIVE SplicedAll(_, _, _)
SplicedAll(alts, i, replacement) ==
    IF alts = <<>> THEN <<>>
    ELSE IF i <= Len(_collect_nodes(Head(alts)))
    THEN <<Spliced(Head(alts), i, replacement)>> \o Tail(alts)
    ELSE <<Head(alts)>>
         \o SplicedAll(Tail(alts), i - Len(_collect_nodes(Head(alts))), replacement)

Spliced(node, i, replacement) ==
    IF i = 1 THEN replacement
    ELSE IF node.type \in {"quantifier", "group"}
    THEN [node EXCEPT !.child = Spliced(node.child, i - 1, replacement)]
    ELSE IF node.type = "alternation"
    THEN AlternationNode(SplicedAll(node.alternatives, i - 1, replacement))
    ELSE node

\* C24: when mutate selects a node, root or not, the tree it returns is the
\* input with what the operator returned at the place of that node, and
\* serializes as that tree does.  Stated for the calls that select one node.
C24_ReplacementIsSpliced ==
    (pc = "mutated" /\ result.selected = "one") =>
        /\ Load(run.heap, first[1])
             = Spliced(call.pattern.root, result.chosen[1].index,
                       result.chosen[1].replacement)
        /\ to_regex(Load(run.heap, first[1]))
             = to_regex(Spliced(call.pattern.root, result.chosen[1].index,
                                result.chosen[1].replacement))

\* C25: a neighbor whose regex fails to compile is rejected: the neighbor
\* that an iteration accepts as the current pattern has no compilation
\* error, and the best fitness has one only when it is that of the start.
C25_CompileFailedRejected ==
    pc \in {"loop", "exit", "returned"} =>
        /\ (run.decision.evaluated /\ run.decision.accept) =>
               run.current_fitness.compilation_error = ""
        /\ run.best_fitness.compilation_error # "" =>
               run.best_fitness = run.start_fitness

\* an iteration that ended at the continue of the complexity check: the loop
\* variable advanced, the loop goes on, and neither the timeout nor
\* _should_accept was reached
SkippedAsTooComplex ==
    /\ pc = "loop" /\ pc' = "loop"
    /\ run'.iteration = run.iteration + 1
    /\ ~run'.decision.evaluated
    /\ run'.convergence_reason = ""

\* C26: an iteration whose neighbor is over max_complexity adds one to
\* rejected_moves, appends the current total to fitness_history and leaves
\* the current and the best solution, accepted_moves, no_improvement_count
\* and the clock of the scorer as they were; and when the initial pattern is
\* within max_complexity, so are the current and the best pattern of every
\* state.
C26_TooComplexSkipped ==
    /\ [][SkippedAsTooComplex =>
            /\ run'.rejected_moves = run.rejected_moves + 1
            /\ run'.fitness_history
                 = Append(run.fitness_history, run.current_fitness.total_score)
            /\ run'.current_pattern = run.current_pattern
            /\ run'.current_fitness = run.current_fitness
            /\ run'.best_pattern = run.best_pattern
            /\ run'.best_fitness = run.best_fitness
            /\ run'.accepted_moves = run.accepted_moves
            /\ run'.no_improvement_count = run.no_improvement_count
            /\ run'.last_improvement_iteration = run.last_improvement_iteration
            /\ run'.elapsed = run.elapsed]_vars
    /\ [](( /\ pc \in {"loop", "exit", "returned"}
            /\ call.initial_pattern # <<>>
            /\ complexity(call.initial_pattern[1].root) <= sa.config.max_complexity)
          => /\ complexity(run.current_pattern.root) <= sa.config.max_complexity
             /\ complexity(run.best_pattern.root) <= sa.config.max_complexity)

\* a neighbor over max_complexity was skipped, and max_complexity is small
\* enough for a mutation of the start to be over it
C26_NeighborSkipped ==
    /\ pc = "loop"
    /\ run.iteration >= 0
    /\ ~run.decision.evaluated
    /\ run.rejected_moves = run.iteration + 1
    /\ Len(run.fitness_history) = run.iteration + 1
    /\ sa.config.max_complexity = 2

\* an iteration that scored its neighbor and decided on it
ScoredIteration ==
    /\ pc = "loop" /\ pc' \in {"loop", "exit"}
    /\ run'.iteration = run.iteration + 1
    /\ run'.decision.evaluated

\* the neighbor of the iteration was accepted with a total above the best
NewBest ==
    /\ run'.decision.accept
    /\ FGt(run'.decision.neighbor_score, run.best_fitness.total_score)

\* C27: a scored iteration sets no_improvement_count to 0 and
\* last_improvement_iteration to the iteration exactly when its neighbor is
\* accepted with a total strictly above the best, and otherwise adds one to
\* the count; the loop is left with the reason no_improvement by the first
\* iteration that brings the count to max_no_improvement, so the loop is
\* never entered again with the count that high.
C27_NoImprovementCount ==
    /\ [][ScoredIteration =>
            /\ NewBest =>
                  /\ run'.no_improvement_count = 0
                  /\ run'.last_improvement_iteration = run'.iteration
            /\ ~NewBest =>
                  /\ run'.no_improvement_count = run.no_improvement_count + 1
                  /\ run'.last_improvement_iteration = run.last_improvement_iteration
            /\ (run'.no_improvement_count >= sa.config.max_no_improvement)
                 <=> (pc' = "exit" /\ run'.convergence_reason = "no_improvement")]_vars
    /\ [](pc = "loop" => run.no_improvement_count < sa.config.max_no_improvement)

\* the first iteration found a new best and the second, which did not, ended
\* the run for want of improvement
C27_StoppedAfterReset ==
    /\ pc = "exit"
    /\ run.convergence_reason = "no_improvement"
    /\ run.iteration = 1
    /\ run.best_fitness # run.start_fitness
    /\ run.no_improvement_count = sa.config.max_no_improvement

\* C29: between the iterations of optimize the best total is at least the
\* current total, every entry of fitness_history is at most the best total
\* of the moment, and the best total returned is at least every entry of
\* the fitness_history returned.
C29_BestAtLeastCurrent ==
    /\ pc \in {"loop", "exit", "returned"} =>
          /\ FGe(run.best_fitness.total_score, run.current_fitness.total_score)
          /\ \A i \in DOMAIN run.fitness_history :
                FGe(run.best_fitness.total_score, run.fitness_history[i])
    /\ (pc = "returned" /\ call.entry = "optimize") =>
          \A i \in DOMAIN result.fitness_history :
             FGe(result.best_fitness.total_score, result.fitness_history[i])

\* a run returned after it had accepted a neighbor below the best
C29_ReturnedBelowBest ==
    /\ pc = "returned"
    /\ result.accepted_moves > 0
    /\ result.fitness_history # <<>>
    /\ FGt(result.best_fitness.total_score,
           result.fitness_history[Len(result.fitness_history)])

\* C30: in every result of optimize, the timeout included, iterations is the
\* length of temperature_history and of fitness_history and the sum of
\* accepted_moves and rejected_moves, and is at most max_iterations.
C30_CountsAgree ==
    pc = "returned" =>
        /\ result.iterations = Len(result.temperature_history)
        /\ result.iterations = Len(result.fitness_history)
        /\ result.iterations = result.accepted_moves + result.rejected_moves
        /\ result.iterations <= sa.config.max_iterations

\* the quantifier nodes of a tree
QuantifiersOf(root) ==
    {_collect_nodes(root)[i] : i \in {j \in DOMAIN _collect_nodes(root) :
                                         _collect_nodes(root)[j].type = "quantifier"}}

====
